---------------------------- MODULE Spec2Model ----------------------------
(***************************************************************************)
(* Locomotion control of the first-person character.                       *)
(*                                                                         *)
(*   Spec             the physics-step state machine of setupCharacter     *)
(*                    (getNextState, getDesiredVelocity, the after-physics *)
(*                    callback) driven by the CharacterControls keyboard   *)
(*                    observer.                                            *)
(*   SpecVelocity     the same machine with Space as the only key and the  *)
(*                    full range of engine answers.                        *)
(*   SpecPlanner      the click-to-move planner of the                     *)
(*                    character-controller PointerController               *)
(*                    (stepClickToMove and its pointer handlers).          *)
(*   SpecRigid        the click-to-move planner of the rigid-body          *)
(*                    PointerController (movePlayerToPointerTarget and its *)
(*                    pointer handlers).                                   *)
(*   SpecClickToMove  a scene built with either PointerController.         *)
(*   SpecClick        pointer gestures of either scene, every observer of  *)
(*                    the pointer observable included.                     *)
(*   SpecKeys         keyboard, clicks, frames and physics steps of either *)
(*                    scene together.                                      *)
(*   SpecKeyboard     the CharacterControls keyboard observer over every   *)
(*                    order of pressing and releasing its keys.            *)
(*   SpecDolly        two-finger and wheel commands on the rigid body.     *)
(*   SpecPursuit      pursuit of a target under a render loop and a clock  *)
(*                    that never stop.                                     *)
(*   SpecDispose      either scene with detach and dispose.                *)
(*   SpecRetarget     a second click while a target is being pursued, in   *)
(*                    either scene.                                        *)
(*   SpecAngles       wrapAngle over angles of several turns.              *)
(*   SpecTurn         stepClickToMove from every yaw the user can leave.   *)
(*   SpecJump         one jump from rest on a flat still surface, with the *)
(*                    height that the written velocities give.             *)
(*   SpecPointers     a mouse and a finger on the character-controller     *)
(*                    scene at the same time.                              *)
(*   SpecPinch        two fingers on the rigid body moving apart in small  *)
(*                    steps.                                               *)
(*   SpecKeyboardController                                                *)
(*                    the rigid-body KeyboardController: key presses,      *)
(*                    releases and frames.                                 *)
(*   SpecLifecycle    the asynchronous initialisation of createScene       *)
(*                    against the disposal of the scene.                   *)
(*                                                                         *)
(* Units.  Time is in milliseconds.  Linear velocities are in 1/1000       *)
(* unit per second, so gravity * dt = Gravity * dtMs exactly.  Direction   *)
(* vectors (up, surface normals) are in tenths.  Positions and distances   *)
(* of the planners are in 1/100 unit, angles in milliradians.              *)
(***************************************************************************)
EXTENDS Integers, Sequences, FiniteSets, TLC

VARIABLES
    \* ---- setupCharacter / CharacterControls
    state,            \* CharState
    wantJump,         \* controls.wantJump
    inputDirection,   \* controls.inputDirection
    turnInput,        \* controls.turnInput
    yaw,              \* controls.yaw (milliradians)
    lastStep,         \* what the last after-physics callback did
    everSupported,    \* some executed step had a SUPPORTED query
    sinceJump,        \* progress since the last START_JUMP step
    isMouseDown,      \* controls.isMouseDown
    heldKeys,         \* the keys held down, in the order they were pressed
    keyboardState,    \* KeyboardController.keyboardState (rigid body)
    lifecycle,        \* the asynchronous initialisation and the disposal of the scene
    \* ---- PointerController (character controller)
    targetPoint,          \* Vector3 | null
    lastDistance,         \* number | null
    lastDistanceTimeMs,
    isPointerDown,
    isDragging,
    pointerDownPos,
    prevPos,
    activePointerId,      \* number | null
    activePointerType,    \* "mouse" | "touch" | "pen" | null
    \* ---- PointerController (rigid body)
    targetPosition,           \* Vector3 | null
    movementStartTime,
    lastPlayerPosition,       \* Vector3 | null
    pointerDownPosition,
    prevPointerDownPosition,
    activeTouches,            \* Map<number, Vec2>, in insertion order
    pinchLastDistance,        \* number | null
    cursor,                   \* the cursor class on the canvas, or none
    linearVelocity,           \* player.aggregate.body
    angularVelocity,
    angularDamping,
    rotationYaw,              \* player.mesh.rotationQuaternion as a yaw | null
    watchDistance,            \* best distance seen by the frames since the click | null
    watchTimeMs,              \* when it was seen
    \* ---- the host
    now,              \* performance.now(), ms
    charPos,          \* the body's position (getPosition / mesh.position)
    lastFrame,        \* the last before-render callback: a flipping bit and its outcome
    controller,       \* which PointerController the scene was built with
    subscriptions,    \* the observers and callbacks registered on the scene
    lastInput,        \* the last input event handled, in the runs that watch it
    probe             \* when the active target was set and the scene.deltaTime the
                      \* last frame read, in the runs that watch them

\* controls.yaw and controls.inputDirection are written by both components
stateMachineVars == <<state, wantJump, turnInput, lastStep, everSupported, sinceJump>>

locoVars == <<stateMachineVars, inputDirection, yaw>>

pointerVars == <<isPointerDown, isDragging, pointerDownPos, prevPos,
                 activePointerId, activePointerType>>

trackingVars == <<targetPoint, lastDistance, lastDistanceTimeMs>>

plannerVars == <<pointerVars, trackingVars>>

\* isPointerDown and isDragging are fields of both versions of the class
rigidPointerVars == <<pointerDownPosition, prevPointerDownPosition, activeTouches,
                      pinchLastDistance, cursor>>

rigidMovementVars == <<targetPosition, movementStartTime, lastPlayerPosition>>

bodyVars == <<linearVelocity, angularVelocity, angularDamping, rotationYaw>>

watchVars == <<watchDistance, watchTimeMs>>

rigidVars == <<rigidPointerVars, rigidMovementVars, bodyVars, watchVars>>

hostVars == <<now, charPos, lastFrame, controller>>

\* the pointer flag of CharacterControls, the keys the user holds and the
\* registrations
sceneVars == <<isMouseDown, heldKeys, keyboardState, lifecycle, subscriptions, lastInput, probe>>

vars == <<locoVars, plannerVars, rigidVars, hostVars, sceneVars>>

--------------------------------------------------------------------------
\* Vectors

Vec(a, b, c) == [x |-> a, y |-> b, z |-> c]

Zero == Vec(0, 0, 0)

Add(u, v) == Vec(u.x + v.x, u.y + v.y, u.z + v.z)

Sub(u, v) == Vec(u.x - v.x, u.y - v.y, u.z - v.z)

Scale(u, k) == Vec(u.x * k, u.y * k, u.z * k)

Dot(u, v) == u.x * v.x + u.y * v.y + u.z * v.z

Cross(u, v) == Vec(u.y * v.z - u.z * v.y, u.z * v.x - u.x * v.z, u.x * v.y - u.y * v.x)

\* Division rounding toward zero, as a float quotient cut to the grid.
Quot(a, b) == IF (a >= 0) = (b > 0) THEN a \div b ELSE -((-a) \div b)

DivVec(u, k) == Vec(Quot(u.x, k), Quot(u.y, k), Quot(u.z, k))

Abs(a) == IF a < 0 THEN -a ELSE a

RECURSIVE SqrtSearch(_, _, _)
SqrtSearch(n, lo, hi) ==
    IF lo >= hi THEN lo
    ELSE LET mid == (lo + hi + 1) \div 2
         IN IF mid * mid <= n THEN SqrtSearch(n, mid, hi) ELSE SqrtSearch(n, lo, mid - 1)

\* Math.sqrt on the integer grid (floor); n < 2^30.
Sqrt(n) == SqrtSearch(n, 0, 32767)

Length(u) == Sqrt(Dot(u, u))

--------------------------------------------------------------------------
\* setupCharacter: constants

DirUnit == 10

MilliPerUnit == 1000

\* inputDirection is kept in 1/1000: 1.0 is InputUnit
InputUnit == 1000

jumpHeightTenths == 15

GravityMagnitude == 18

turnSpeedCenti == 220

characterGravity == Vec(0, -GravityMagnitude, 0)

inv1k == 1

\* characterGravity.normalizeToNew().scaleInPlace(-1.0), in tenths
upWorld == Scale(DivVec(Scale(characterGravity, DirUnit), Length(characterGravity)), -1)

--------------------------------------------------------------------------
\* What the engine can hand to one after-physics callback

\* An absent value (undefined, null) and a present one
None == <<>>

Some(v) == <<v>>

Val(o) == o[1]

\* peNow.getSubTimeStep(), ms
SubTimeSteps == {0, 10}

\* scene.deltaTime, ms
SceneDeltaTimes == {None, Some(-10), Some(0), Some(20)}

\* (averageSurfaceNormal, averageSurfaceVelocity) of a supporting surface:
\* flat and still, flat and moving, sloped and still
Surfaces == {<<Vec(0, 10, 0), Zero>>, <<Vec(0, 10, 0), Vec(1000, 500, 0)>>,
             <<Vec(6, 8, 0), Zero>>}

\* characterController.checkSupport(dt, down)
SupportInfos ==
    {[supportedState |-> "UNSUPPORTED", averageSurfaceNormal |-> Zero,
      averageSurfaceVelocity |-> Zero],
     [supportedState |-> "SLIDING", averageSurfaceNormal |-> Vec(6, 8, 0),
      averageSurfaceVelocity |-> Zero]}
    \cup {[supportedState |-> "SUPPORTED", averageSurfaceNormal |-> sf[1],
           averageSurfaceVelocity |-> sf[2]] : sf \in Surfaces}

\* characterController.calculateMovement(...): the engine's own resolution
ResolvedVelocities == {Vec(5000, 500, 0), Vec(4000, 3000, 2000), Vec(1000, -1000, 0)}

\* characterController.getVelocity(): the velocity the engine holds after its
\* own integrate(...) of the previous step (falling, at rest, rising)
EngineVelocities == {Zero, Vec(3000, -2000, 1000), Vec(0, 4000, 0)}

Keys == {"w", "s", "a", "d", "ArrowUp", "ArrowDown", "ArrowLeft", "ArrowRight", " ", "q"}

MaxYaw == 44

\* the cap on |yaw| reached by dragging, mrad
MaxPlannerYaw == 100

\* performance.now() when the scene is built: positive, so that a recorded
\* time is never the falsy 0
StartTimeMs == 1

\* the clock advances in steps of TickMs, up to MaxTicks of them
TickMs == 300

MaxTicks == 3

\* the clock of the rigid-body runs: RigidTickMs at a time, MaxRigidTicks of them
RigidTickMs == 1000

MaxRigidTicks == 4

\* where the body starts: new Vector3(-2, 3.0, 5.0)
StartPosition == Vec(-200, 300, 500)

--------------------------------------------------------------------------
\* setupCharacter: the state machine

getNextState_JumpOnLanding(st, supportInfo, jump) ==
    IF st = "IN_AIR"
    THEN IF supportInfo.supportedState = "SUPPORTED"
         THEN (IF jump THEN "START_JUMP" ELSE "ON_GROUND")
         ELSE "IN_AIR"
    ELSE IF st = "ON_GROUND"
    THEN IF supportInfo.supportedState # "SUPPORTED" THEN "IN_AIR"
         ELSE IF jump THEN "START_JUMP"
         ELSE "ON_GROUND"
    ELSE "IN_AIR"

getNextState_JumpFirst(st, supportInfo, jump) ==
    IF st = "IN_AIR"
    THEN IF supportInfo.supportedState = "SUPPORTED" THEN "ON_GROUND" ELSE "IN_AIR"
    ELSE IF st = "ON_GROUND"
    THEN IF jump THEN "START_JUMP"
         ELSE IF supportInfo.supportedState # "SUPPORTED" THEN "IN_AIR"
         ELSE "ON_GROUND"
    ELSE "IN_AIR"

getNextState_StickyJump(st, supportInfo, jump) ==
    IF st = "IN_AIR"
    THEN IF supportInfo.supportedState = "SUPPORTED" THEN "ON_GROUND" ELSE "IN_AIR"
    ELSE IF st = "ON_GROUND"
    THEN IF supportInfo.supportedState # "SUPPORTED" THEN "IN_AIR"
         ELSE IF jump THEN "START_JUMP"
         ELSE "ON_GROUND"
    ELSE IF jump /\ supportInfo.supportedState = "SUPPORTED" THEN "START_JUMP"
    ELSE "IN_AIR"

getNextState(st, supportInfo, jump) ==
    IF st = "IN_AIR"
    THEN IF supportInfo.supportedState = "SUPPORTED" THEN "ON_GROUND" ELSE "IN_AIR"
    ELSE IF st = "ON_GROUND"
    THEN IF supportInfo.supportedState # "SUPPORTED" THEN "IN_AIR"
         ELSE IF jump THEN "START_JUMP"
         ELSE "ON_GROUND"
    ELSE "IN_AIR"

\* u = Math.sqrt(2 * characterGravity.length() * jumpHeight), in 1/1000 unit/s
\* the factor 2 of u = sqrt(2 |g| h) is missing
jumpSpeed_NoFactorTwo ==
    Sqrt(Length(characterGravity) * jumpHeightTenths * ((MilliPerUnit * MilliPerUnit) \div 10))

jumpSpeed ==
    Sqrt(2 * Length(characterGravity) * jumpHeightTenths * ((MilliPerUnit * MilliPerUnit) \div 10))

\* v.dot(upWorld) of a velocity
UpComponent(v) == Quot(Dot(v, upWorld), DirUnit)

\* IN_AIR branch: strip the resolved vertical part, restore the current one,
\* add characterGravity.scale(deltaTime).
inAirVelocity_KeepResolved(dtMs, currentVelocity, resolved) ==
    Add(Add(resolved, DivVec(Scale(upWorld, UpComponent(currentVelocity)), DirUnit)),
        Scale(characterGravity, dtMs))

inAirVelocity(dtMs, currentVelocity, resolved) ==
    LET stripped == Add(resolved, DivVec(Scale(upWorld, -UpComponent(resolved)), DirUnit))
        restored == Add(stripped, DivVec(Scale(upWorld, UpComponent(currentVelocity)), DirUnit))
    IN Add(restored, Scale(characterGravity, dtMs))

\* The slope branch of ON_GROUND.  normalizeFromLength(velLen) and the later
\* scaling by horizLen = velLen / normal.dot(upWorld) cancel velLen, leaving
\* ((normal x v) x up) / (normal . up).
reproject(normal, v) ==
    DivVec(Cross(Cross(normal, v), upWorld), Dot(normal, upWorld))

slopeBranchTaken_ByNormal(supportInfo, relative) ==
    supportInfo.averageSurfaceNormal # upWorld /\ UpComponent(relative) > inv1k

slopeBranchTaken(supportInfo, relative) == UpComponent(relative) > inv1k

onGroundVelocity(supportInfo, resolved) ==
    LET relative == Sub(resolved, supportInfo.averageSurfaceVelocity)
        out == IF slopeBranchTaken(supportInfo, relative)
               THEN reproject(supportInfo.averageSurfaceNormal, relative)
               ELSE relative
    IN Add(out, supportInfo.averageSurfaceVelocity)

startJumpVelocity_AddImpulse(currentVelocity) ==
    Add(currentVelocity, DivVec(Scale(upWorld, jumpSpeed), DirUnit))

startJumpVelocity(currentVelocity) ==
    LET curRelVel == UpComponent(currentVelocity)
    IN Add(currentVelocity, DivVec(Scale(upWorld, jumpSpeed - curRelVel), DirUnit))

\* The velocity getDesiredVelocity returns once `state` holds the next state.
\* the START_JUMP branch is missing: the jump step falls through to the
\* airborne formula
getDesiredVelocity_NoJumpBranch(st, dtMs, supportInfo, currentVelocity, resolved) ==
    IF st = "ON_GROUND" THEN onGroundVelocity(supportInfo, resolved)
    ELSE inAirVelocity(dtMs, currentVelocity, resolved)

getDesiredVelocity(st, dtMs, supportInfo, currentVelocity, resolved) ==
    IF st = "IN_AIR" THEN inAirVelocity(dtMs, currentVelocity, resolved)
    ELSE IF st = "ON_GROUND" THEN onGroundVelocity(supportInfo, resolved)
    ELSE startJumpVelocity(currentVelocity)

\* dt of the callback, in ms
stepDt(sub, delta) ==
    IF sub > 0 THEN sub ELSE IF delta = None THEN 0 ELSE Val(delta)

stepRuns_NonNegative(dtMs) == dtMs >= 0

\* the guard `if (dt <= 0) return;`
stepRuns(dtMs) == ~(dtMs <= 0)

\* controls.stepTurn(dt, turnSpeed): yaw += turnInput * turnSpeed * dt, in mrad
stepTurn(y, dtMs) == y + Quot(turnInput * turnSpeedCenti * dtMs, 100)

\* Monitor of the path since the last START_JUMP step: "J1" at the first jump
\* step and "J" at a later one, "JA" once an IN_AIR step followed, "JAG" once an
\* ON_GROUND step followed that.
SinceJumpAfter(st) ==
    IF st = "START_JUMP" THEN (IF sinceJump = "none" THEN "J1" ELSE "J")
    ELSE IF st = "IN_AIR" THEN (IF sinceJump \in {"J1", "J"} THEN "JA" ELSE sinceJump)
    ELSE IF sinceJump = "JA" THEN "JAG" ELSE sinceJump

NoStep ==
    [dt |-> 0, calls |-> <<>>, before |-> "IN_AIR", jump |-> FALSE,
     support |-> CHOOSE s \in SupportInfos : s.supportedState = "UNSUPPORTED",
     currentVelocity |-> Zero, resolved |-> Zero, written |-> Zero, slope |-> FALSE,
     integrated |-> <<>>]

\* scene.onAfterPhysicsObservable callback, for the values the engine hands it:
\* checkSupport's result, calculateMovement's result and getVelocity's result.
PhysicsStep(supports, resolveds, velocities) ==
    \E sub \in SubTimeSteps, delta \in SceneDeltaTimes, support \in supports,
       resolved \in resolveds, currentVelocity \in velocities :
        LET dtMs == stepDt(sub, delta)
        IN IF ~stepRuns(dtMs)
           THEN /\ lastStep' = [NoStep EXCEPT !.dt = dtMs, !.before = state, !.jump = wantJump]
                /\ UNCHANGED <<state, wantJump, inputDirection, turnInput, yaw,
                               everSupported, sinceJump>>
           ELSE LET nextState == getNextState(state, support, wantJump)
                    relative == Sub(resolved, support.averageSurfaceVelocity)
                    desired == getDesiredVelocity(nextState, dtMs, support,
                                                  currentVelocity, resolved)
                IN /\ stepTurn(yaw, dtMs) = yaw \/ Abs(stepTurn(yaw, dtMs)) <= MaxYaw
                   /\ yaw' = stepTurn(yaw, dtMs)
                   /\ state' = nextState
                   /\ everSupported' = (everSupported \/ support.supportedState = "SUPPORTED")
                   /\ sinceJump' = SinceJumpAfter(nextState)
                   /\ lastStep' =
                         [dt |-> dtMs, before |-> state, jump |-> wantJump,
                          support |-> support,
                          currentVelocity |-> currentVelocity,
                          resolved |-> IF nextState = "START_JUMP" THEN Zero ELSE resolved,
                          written |-> desired,
                          integrated |-> <<dtMs, support>>,
                          slope |-> (nextState = "ON_GROUND"
                                     /\ slopeBranchTaken(support, relative)),
                          calls |-> <<"checkSupport", "stepTurn">>
                                    \o (IF nextState = "START_JUMP" THEN <<>>
                                        ELSE <<"calculateMovement">>)
                                    \o <<"setVelocity", "integrate">>]
                   /\ UNCHANGED <<wantJump, inputDirection, turnInput>>

\* CharacterControls.attach: keyboard observer, KEYDOWN
KeyDown(k) ==
    /\ inputDirection' = IF k \in {"w", "ArrowUp"} THEN [inputDirection EXCEPT !.z = InputUnit]
                         ELSE IF k \in {"s", "ArrowDown"} THEN [inputDirection EXCEPT !.z = -InputUnit]
                         ELSE inputDirection
    /\ turnInput' = IF k \in {"w", "ArrowUp", "s", "ArrowDown"} THEN turnInput
                    ELSE IF k \in {"a", "ArrowLeft"} THEN -1
                    ELSE IF k \in {"d", "ArrowRight"} THEN 1
                    ELSE turnInput
    /\ wantJump' = IF k = " " THEN TRUE ELSE wantJump
    /\ UNCHANGED <<state, yaw, lastStep, everSupported, sinceJump>>

\* CharacterControls.attach: keyboard observer, KEYUP
KeyUp(k) ==
    /\ inputDirection' = IF k \in {"w", "s", "ArrowUp", "ArrowDown"}
                         THEN [inputDirection EXCEPT !.z = 0]
                         ELSE inputDirection
    /\ turnInput' = IF k \in {"a", "d", "ArrowLeft", "ArrowRight"} THEN 0 ELSE turnInput
    /\ wantJump' = IF k \in {"a", "d", "ArrowLeft", "ArrowRight"} THEN wantJump
                   ELSE IF k = " " THEN FALSE
                   ELSE wantJump
    /\ UNCHANGED <<state, yaw, lastStep, everSupported, sinceJump>>

\* the factor of `movementX * -0.02`, in mrad per pixel
mouseYawSpeedMilli == 20

\* CharacterControls.attach: pointer observer; isMouseDown after the event
controlsMouseDown(type) ==
    IF type = "POINTERDOWN" THEN TRUE
    ELSE IF type = "POINTERUP" THEN FALSE
    ELSE isMouseDown

\* CharacterControls.attach: pointer observer; controls.yaw after the event
controlsPointerYaw(type, movementX) ==
    IF type = "POINTERMOVE" /\ isMouseDown
    THEN yaw - movementX * mouseYawSpeedMilli
    ELSE yaw

\* what CharacterControls.detach(scene) removes; the window keydown handler
\* only calls preventDefault
detachedListeners == {"controls.pointer", "controls.keyboard", "window.keydown"}

\* CharacterControls.detach(scene)
detach == subscriptions' = subscriptions \ detachedListeners

--------------------------------------------------------------------------
\* PointerController (character controller): constants, in 1/100 unit, ms, mrad

Pt(a, b) == [x |-> a, y |-> b]

dragThresholdPxMouse == 3

dragThresholdPxTouch == 10

\* yawSpeed = 0.003 rad/pixel
yawSpeedMilli == 3

\* stopDistance = 0.35
stopDistance == 35

\* clickToMoveStrength = 0.5
clickToMoveStrength == 500

\* turnSpeed = 4.0 rad/sec
plannerTurnSpeed == 4

\* stuckEpsilon = 0.05
stuckEpsilon == 5

stuckTimeoutMs == 600

\* Math.PI
PI == 3142

--------------------------------------------------------------------------
\* Math on the grid: angles in mrad, sines and ratios in 1/1000

\* one pass of each loop only
wrapAngle_OneTurn(angle) ==
    IF angle > PI THEN angle - PI * 2
    ELSE IF angle < -PI THEN angle + PI * 2
    ELSE angle

RECURSIVE wrapAngle(_)
wrapAngle(angle) ==
    IF angle > PI THEN wrapAngle(angle - PI * 2)
    ELSE IF angle < -PI THEN wrapAngle(angle + PI * 2)
    ELSE angle

Min(a, b) == IF a < b THEN a ELSE b

Max(a, b) == IF a > b THEN a ELSE b

\* t is used as it comes
lerpAngle_NoClamp(current, target, t) ==
    LET a == wrapAngle(target - current)
    IN current + Quot(a * t, 1000)

\* t in 1/1000
lerpAngle(current, target, t) ==
    LET a == wrapAngle(target - current)
        clamped == Min(Max(t, 0), 1000)
    IN current + Quot(a * clamped, 1000)

\* atan(n / d) for 0 <= n <= d, d > 0: r * (pi/4 + 0.273 * (1 - r))
AtanRatio(n, d) ==
    LET r == (1000 * n) \div d
    IN (r * ((PI \div 4) + (273 * (1000 - r)) \div 1000)) \div 1000

\* Math.atan2(y, x)
Atan2(y, x) ==
    IF x = 0 /\ y = 0 THEN 0
    ELSE LET ay == Abs(y)
             ax == Abs(x)
             base == IF ay <= ax THEN AtanRatio(ay, ax)
                     ELSE (PI \div 2) - AtanRatio(ax, ay)
             angle == IF x >= 0 THEN base ELSE PI - base
         IN IF y >= 0 THEN angle ELSE -angle

\* Math.sin on [0, PI]: 16 a (pi - a) / (5 pi^2 - 4 a (pi - a))
SinHalfTurn(a) ==
    LET p == (a * (PI - a)) \div 100
    IN (16000 * p) \div ((5 * PI * PI) \div 100 - 4 * p)

\* Math.sin
Sin(angle) ==
    LET a == wrapAngle(angle)
    IN IF a >= 0 THEN SinHalfTurn(a) ELSE -SinHalfTurn(-a)

\* Math.cos
Cos(angle) == Sin(angle + PI \div 2)

\* Math.hypot(dx, dy) > threshold, on integers
HypotExceeds(dx, dy, threshold) == dx * dx + dy * dy > threshold * threshold

\* Math.hypot(dx, dy) < threshold, on integers
HypotBelow(dx, dy, threshold) == dx * dx + dy * dy < threshold * threshold

--------------------------------------------------------------------------
\* PointerController (character controller): handlers

\* what a before-render callback leaves for the observer: its outcome, and
\* the best distance to the target the callbacks have seen since the click
\* (improved only by more than `epsilon`) with the time it was seen
frameOutcome(outcome, distance, epsilon) ==
    /\ lastFrame' = [seq |-> 1 - lastFrame.seq, outcome |-> outcome]
    /\ IF outcome # "pursuing"
       THEN /\ watchDistance' = None
            /\ UNCHANGED watchTimeMs
       ELSE IF watchDistance = None
       THEN /\ watchDistance' = Some(distance)
            /\ watchTimeMs' = now
       ELSE IF distance < Val(watchDistance) - epsilon
       THEN /\ watchDistance' = Some(distance)
            /\ watchTimeMs' = now
       ELSE UNCHANGED watchVars

dragThreshold(pointerType) ==
    IF pointerType = Some("touch") THEN dragThresholdPxTouch ELSE dragThresholdPxMouse

\* onPointerDown(event)
onPointerDown(event) ==
    IF activePointerId # None
    THEN UNCHANGED <<plannerVars, yaw, inputDirection>>
    ELSE /\ isPointerDown' = TRUE
         /\ isDragging' = FALSE
         /\ pointerDownPos' = Pt(event.clientX, event.clientY)
         /\ prevPos' = Pt(event.clientX, event.clientY)
         /\ activePointerId' = Some(event.pointerId)
         /\ activePointerType' = IF event.pointerType = None THEN Some("mouse")
                                 ELSE event.pointerType
         /\ UNCHANGED <<trackingVars, yaw, inputDirection>>

\* onPointerMove(event); controlsYaw is controls.yaw as the observers that ran
\* before this one left it
onPointerMove(event, controlsYaw) ==
    IF ~isPointerDown \/ activePointerId # Some(event.pointerId)
    THEN /\ yaw' = controlsYaw
         /\ UNCHANGED <<plannerVars, inputDirection>>
    ELSE LET dx == event.clientX - prevPos.x
             totalDx == event.clientX - pointerDownPos.x
             totalDy == event.clientY - pointerDownPos.y
             dragging == isDragging
                         \/ HypotExceeds(totalDx, totalDy, dragThreshold(activePointerType))
         IN /\ isDragging' = dragging
            /\ IF dragging
               THEN /\ yaw' = controlsYaw + dx * yawSpeedMilli
                    /\ targetPoint' = None
               ELSE /\ yaw' = controlsYaw
                    /\ UNCHANGED targetPoint
            /\ prevPos' = Pt(event.clientX, event.clientY)
            /\ UNCHANGED <<isPointerDown, pointerDownPos, activePointerId,
                           activePointerType, lastDistance, lastDistanceTimeMs,
                           inputDirection>>

\* what dispose() removes: the pointer observer; the update loop is not
disposedListeners == {"pointer"}

\* dispose()
dispose == subscriptions' = subscriptions \ disposedListeners

\* pickedMesh?.name ?? "" is one of MeshNames; n.includes("Side Panel")
nameIncludesSidePanel(n) == n \in {"Side Panel", "Left Side Panel"}

handleClick_NoFilter(pick) ==
    IF ~pick.hit \/ pick.pickedPoint = None THEN <<targetPoint, lastDistance, lastDistanceTimeMs>>
    ELSE <<pick.pickedPoint, None, now>>

\* handleClick(pick): the tracking fields after the click
handleClick(pick) ==
    IF ~pick.hit \/ pick.pickedPoint = None THEN <<targetPoint, lastDistance, lastDistanceTimeMs>>
    ELSE IF nameIncludesSidePanel(pick.pickedMesh) THEN <<targetPoint, lastDistance, lastDistanceTimeMs>>
    ELSE <<pick.pickedPoint, None, now>>

\* onPointerUp(event); `pick` is what scene.pick returns at the release point
onPointerUp(event, pick) ==
    IF activePointerId # Some(event.pointerId)
    THEN UNCHANGED <<plannerVars, yaw, inputDirection, watchDistance>>
    ELSE LET isClick == ~HypotExceeds(event.clientX - pointerDownPos.x,
                                      event.clientY - pointerDownPos.y,
                                      dragThreshold(activePointerType))
             tracking == IF isClick THEN handleClick(pick) ELSE trackingVars
             accepted == isClick /\ pick.hit /\ pick.pickedPoint # None
                         /\ ~nameIncludesSidePanel(pick.pickedMesh)
         IN /\ isPointerDown' = FALSE
            /\ watchDistance' = IF accepted THEN None ELSE watchDistance
            /\ targetPoint' = tracking[1]
            /\ lastDistance' = tracking[2]
            /\ lastDistanceTimeMs' = tracking[3]
            /\ isDragging' = FALSE
            /\ activePointerId' = None
            /\ activePointerType' = None
            /\ UNCHANGED <<pointerDownPos, prevPos, yaw, inputDirection>>

toTarget_KeepY(target, pos) == Sub(target, pos)

\* to = targetPoint - pos with to.y = 0
toTarget(target, pos) == [Sub(target, pos) EXCEPT !.y = 0]

\* to.normalize(), in 1/1000
normalized(v) ==
    LET len == Length(v)
    IN IF len = 0 THEN v ELSE Vec(Quot(v.x * 1000, len), Quot(v.y * 1000, len), Quot(v.z * 1000, len))

\* the stall test `dist < lastDistance - stuckEpsilon`
madeProgress(dist, last) == dist < last - stuckEpsilon

\* the arrival test `dist < stopDistance`
hasArrived(dist) == dist < stopDistance

\* inputDirection.set(localX, 0, localZ) scaled to clickToMoveStrength
localDirection(to, y) ==
    LET sin == Sin(y)
        cos == Cos(y)
        localX == Quot(to.x * cos - to.z * sin, 1000)
        localZ == Quot(to.x * sin + to.z * cos, 1000)
        v == Vec(localX, 0, localZ)
        len == Length(v)
    IN IF len > 0
       THEN Vec(Quot(localX * clickToMoveStrength, len), 0, Quot(localZ * clickToMoveStrength, len))
       ELSE v

\* stepClickToMove(), run by the onBeforeRenderObservable callback;
\* deltaTime is scene.deltaTime
stepClickToMove(deltaTime) ==
    IF targetPoint = None
       THEN /\ UNCHANGED <<plannerVars, yaw, inputDirection>>
            /\ frameOutcome("idle", 0, 0)
       ELSE LET to == toTarget(Val(targetPoint), charPos)
                dist == Length(to)
                dir == normalized(to)
                desiredYaw == Atan2(dir.x, dir.z)
                dtMs == IF deltaTime = None THEN 0 ELSE Val(deltaTime)
                nextYaw == IF dtMs > 0
                           THEN lerpAngle(yaw, desiredYaw, plannerTurnSpeed * dtMs)
                           ELSE yaw
            IN IF hasArrived(dist)
               THEN /\ targetPoint' = None
                    /\ lastDistance' = None
                    /\ inputDirection' = Zero
                    /\ UNCHANGED <<pointerVars, lastDistanceTimeMs, yaw>>
                    /\ frameOutcome("arrived", dist, stuckEpsilon)
               ELSE /\ yaw' = nextYaw
                    /\ UNCHANGED pointerVars
                    /\ IF lastDistance = None
                       THEN /\ lastDistance' = Some(dist)
                            /\ lastDistanceTimeMs' = now
                            /\ inputDirection' = localDirection(dir, nextYaw)
                            /\ UNCHANGED targetPoint
                            /\ frameOutcome("pursuing", dist, stuckEpsilon)
                       ELSE IF madeProgress(dist, Val(lastDistance))
                       THEN /\ lastDistance' = Some(dist)
                            /\ lastDistanceTimeMs' = now
                            /\ inputDirection' = localDirection(dir, nextYaw)
                            /\ UNCHANGED targetPoint
                            /\ frameOutcome("pursuing", dist, stuckEpsilon)
                       ELSE IF now - lastDistanceTimeMs > stuckTimeoutMs
                       THEN /\ targetPoint' = None
                            /\ lastDistance' = None
                            /\ inputDirection' = Zero
                            /\ UNCHANGED lastDistanceTimeMs
                            /\ frameOutcome("stalled", dist, stuckEpsilon)
                       ELSE /\ inputDirection' = localDirection(dir, nextYaw)
                            /\ UNCHANGED trackingVars
                            /\ frameOutcome("pursuing", dist, stuckEpsilon)

--------------------------------------------------------------------------
\* PointerController (rigid body): constants.  Angular velocities are in
\* 1/AngularUnit rad/s, linear velocities in 1/1000 unit/s.

AngularUnit == 10

dragThreshold_rigid == 1

\* dragRotationSpeed = 0.2
dragRotationSpeed == 2

\* moveRotationSpeed = 1
moveRotationSpeed == 10

angularDampingValue == 500

\* rotationThreshold = 0.01 rad
rotationThreshold == 10

\* stuckThreshold = 0.25
stuckThreshold == 25

multiplierFactor == 5

pinchDeadzonePx == 2

pinchSpeed == 4

\* the literal in `distance < 0.25`
reachedDistance == 25

\* the literal in `elapsedTime <= 1`, ms
stuckWindowMs == 1000

--------------------------------------------------------------------------
\* PointerController (rigid body): handlers

isTouch(event) == event.pointerType = Some("touch")

\* activeTouches.has(id)
touchesHas(touches, id) == \E i \in 1..Len(touches) : touches[i].id = id

\* activeTouches.set(id, {x, y}): an existing key keeps its place
touchesSet(touches, id, px, py) ==
    IF touchesHas(touches, id)
    THEN [i \in 1..Len(touches) |->
            IF touches[i].id = id THEN [id |-> id, x |-> px, y |-> py] ELSE touches[i]]
    ELSE Append(touches, [id |-> id, x |-> px, y |-> py])

\* activeTouches.delete(id)
touchesDelete(touches, id) == SelectSeq(touches, LAMBDA t : t.id # id)

\* getPinchDistance()
getPinchDistance(touches) ==
    IF Len(touches) < 2 THEN 0
    ELSE Sqrt((touches[2].x - touches[1].x) * (touches[2].x - touches[1].x)
              + (touches[2].y - touches[1].y) * (touches[2].y - touches[1].y))

\* player.mesh.getDirection(Axis.Z), in 1/1000
forwardDirection ==
    IF rotationYaw = None THEN Vec(0, 0, 1000)
    ELSE Vec(Sin(Val(rotationYaw)), 0, Cos(Val(rotationYaw)))

\* pickedMesh?.name.startsWith("npc")
nameStartsWithNpc(n) == n \in {"npc", "npc guide"}

\* pickedMesh.name.startsWith("sphere")
nameStartsWithSphere(n) == n \in {"sphere", "sphere1"}

\* onPointerDown(event)
onPointerDown_rigid(event) ==
    LET touches == IF isTouch(event)
                   THEN touchesSet(activeTouches, event.pointerId, event.clientX, event.clientY)
                   ELSE activeTouches
    IN /\ isPointerDown' = TRUE
       /\ isDragging' = FALSE
       /\ prevPointerDownPosition' = Pt(event.clientX, event.clientY)
       /\ pointerDownPosition' = Pt(event.clientX, event.clientY)
       /\ cursor' = Some("cursor-pointer")
       /\ activeTouches' = touches
       /\ pinchLastDistance' = IF isTouch(event) /\ Len(touches) >= 2
                               THEN Some(getPinchDistance(touches))
                               ELSE pinchLastDistance
       /\ UNCHANGED <<rigidMovementVars, bodyVars, watchVars>>

\* cancelClickMove() and resetMovement() leave the body stopped and the
\* tracking fields cleared
clearMovement ==
    /\ targetPosition' = None
    /\ movementStartTime' = 0
    /\ lastPlayerPosition' = None
    /\ linearVelocity' = Zero
    /\ angularVelocity' = Zero

handlePinch_KeepTarget(touches) ==
    LET distance == getPinchDistance(touches)
        delta == distance - Val(pinchLastDistance)
        dirSign == IF delta < 0 THEN 1 ELSE -1
        desired == Scale(forwardDirection, pinchSpeed * dirSign)
    IN IF pinchLastDistance = None
       THEN /\ pinchLastDistance' = Some(distance)
            /\ UNCHANGED <<rigidMovementVars, linearVelocity, angularVelocity>>
       ELSE IF Abs(delta) < pinchDeadzonePx
       THEN UNCHANGED <<pinchLastDistance, rigidMovementVars, linearVelocity, angularVelocity>>
       ELSE /\ pinchLastDistance' = Some(distance)
            /\ linearVelocity' = Vec(desired.x, linearVelocity.y, desired.z)
            /\ UNCHANGED <<rigidMovementVars, angularVelocity>>

\* handlePinch(), with the touches as just updated
handlePinch(touches) ==
    LET distance == getPinchDistance(touches)
        delta == distance - Val(pinchLastDistance)
        dirSign == IF delta < 0 THEN 1 ELSE -1
        desired == Scale(forwardDirection, pinchSpeed * dirSign)
    IN IF pinchLastDistance = None
       THEN /\ pinchLastDistance' = Some(distance)
            /\ UNCHANGED <<rigidMovementVars, linearVelocity, angularVelocity>>
       ELSE IF Abs(delta) < pinchDeadzonePx
       THEN UNCHANGED <<pinchLastDistance, rigidMovementVars, linearVelocity, angularVelocity>>
       ELSE /\ pinchLastDistance' = Some(distance)
            /\ IF targetPosition # None
               THEN clearMovement
               ELSE /\ linearVelocity' = Vec(desired.x, linearVelocity.y, desired.z)
                    /\ UNCHANGED <<rigidMovementVars, angularVelocity>>

\* onPointerMove(event); `pick` is what scene.pick returns under the pointer
onPointerMove_rigid(event, pick) ==
    LET tracked == isTouch(event) /\ touchesHas(activeTouches, event.pointerId)
        touches == IF tracked
                   THEN touchesSet(activeTouches, event.pointerId, event.clientX, event.clientY)
                   ELSE activeTouches
        deltaX == event.clientX - prevPointerDownPosition.x
        moveX == event.clientX - pointerDownPosition.x
        moveY == event.clientY - pointerDownPosition.y
    IN /\ activeTouches' = touches
       /\ IF tracked /\ Len(touches) >= 2
          THEN /\ handlePinch(touches)
               /\ UNCHANGED <<isPointerDown, isDragging, pointerDownPosition,
                              prevPointerDownPosition, cursor>>
          ELSE IF isPointerDown
          THEN /\ angularVelocity' = Vec(0, -deltaX * dragRotationSpeed, 0)
               /\ isDragging' = HypotExceeds(moveX, moveY, dragThreshold_rigid)
               /\ cursor' = IF HypotExceeds(moveX, moveY, dragThreshold_rigid)
                            THEN Some("cursor-grabbing") ELSE Some("cursor-pointer")
               /\ prevPointerDownPosition' = Pt(event.clientX, event.clientY)
               /\ UNCHANGED <<isPointerDown, pointerDownPosition, pinchLastDistance,
                              rigidMovementVars, linearVelocity>>
          ELSE /\ cursor' = IF pick.hit /\ pick.pickedMesh # ""
                            THEN IF nameStartsWithSphere(pick.pickedMesh)
                                 THEN Some("cursor-crosshair")
                                 ELSE IF nameStartsWithNpc(pick.pickedMesh)
                                 THEN Some("cursor-pointer")
                                 ELSE None
                            ELSE None
               /\ UNCHANGED <<isPointerDown, isDragging, pointerDownPosition,
                              prevPointerDownPosition, pinchLastDistance,
                              rigidMovementVars, linearVelocity, angularVelocity>>
       /\ UNCHANGED <<angularDamping, rotationYaw, watchVars>>

\* pointerSelectActionHandling(pickResult): the target after the click
pointerSelectActionHandling(pick) ==
    IF pick.hit /\ pick.pickedPoint # None
    THEN IF nameStartsWithNpc(pick.pickedMesh) THEN targetPosition ELSE pick.pickedPoint
    ELSE targetPosition

\* onPointerUp(event); `pick` is what scene.pick returns at the release point
onPointerUp_rigid(event, pick) ==
    LET tracked == isTouch(event) /\ touchesHas(activeTouches, event.pointerId)
        touches == IF tracked THEN touchesDelete(activeTouches, event.pointerId)
                   ELSE activeTouches
        isClick == HypotBelow(event.clientX - pointerDownPosition.x,
                              event.clientY - pointerDownPosition.y,
                              dragThreshold_rigid)
        target == IF isClick THEN pointerSelectActionHandling(pick) ELSE targetPosition
        accepted == isClick /\ pick.hit /\ pick.pickedPoint # None
                    /\ ~nameStartsWithNpc(pick.pickedMesh)
    IN /\ isPointerDown' = FALSE
       /\ isDragging' = FALSE
       /\ cursor' = None
       /\ activeTouches' = touches
       /\ pinchLastDistance' = IF tracked /\ Len(touches) < 2 THEN None ELSE pinchLastDistance
       /\ targetPosition' = target
       \* stopPlayerMovement()
       /\ linearVelocity' = Zero
       /\ angularVelocity' = Zero
       /\ watchDistance' = IF accepted THEN None ELSE watchDistance
       /\ UNCHANGED <<pointerDownPosition, prevPointerDownPosition, movementStartTime,
                      lastPlayerPosition, angularDamping, rotationYaw, watchTimeMs>>

\* isMovementKey of the keyboard observer
isMovementKey(k) ==
    k \in {"w", "a", "s", "d", "ArrowUp", "ArrowDown", "ArrowLeft", "ArrowRight", " ", "Shift"}

\* registerKeyboardEvents: the observer, for a KEYDOWN of key k
onKeyDown_rigid(k) ==
    IF targetPosition = None THEN UNCHANGED <<rigidMovementVars, linearVelocity, angularVelocity>>
    ELSE IF isMovementKey(k) THEN clearMovement
    ELSE UNCHANGED <<rigidMovementVars, linearVelocity, angularVelocity>>

\* registerWheelEvents: the wheel handler
onWheel(event) ==
    LET dirSign == IF event.deltaY < 0 THEN 1 ELSE -1
        desired == Scale(forwardDirection, pinchSpeed * dirSign)
    IN IF ~event.ctrlKey
       THEN UNCHANGED <<rigidMovementVars, linearVelocity, angularVelocity>>
       ELSE IF targetPosition # None
       THEN clearMovement
       ELSE /\ linearVelocity' = Vec(desired.x, linearVelocity.y, desired.z)
            /\ UNCHANGED <<rigidMovementVars, angularVelocity>>

\* dispose(): the pointer and keyboard observers and the wheel handler are
\* removed; the update loop is not
dispose_rigid == subscriptions' = subscriptions \ {"pointer", "keyboard", "wheel"}

\* hasPlayerMovedSignificantly()
hasPlayerMovedSignificantly ==
    IF lastPlayerPosition = None THEN TRUE
    ELSE LET d == Sub(Val(lastPlayerPosition), charPos)
         IN Dot(d, d) > stuckThreshold * stuckThreshold

\* the arrival test `distance < 0.25`
hasReached_rigid(distance) == distance < reachedDistance

\* applyMovement(direction), direction in 1/1000
applyMovement(direction) ==
    LET desiredYaw == Atan2(direction.x, direction.z)
        angle == wrapAngle(desiredYaw - Val(rotationYaw))
    IN /\ linearVelocity' = Add(Scale(direction, multiplierFactor), Vec(0, linearVelocity.y, 0))
       /\ IF rotationYaw = None
          THEN /\ rotationYaw' = Some(desiredYaw)
               /\ UNCHANGED <<angularVelocity, angularDamping>>
          ELSE IF Abs(angle) < rotationThreshold
          THEN /\ rotationYaw' = Some(desiredYaw)
               /\ UNCHANGED <<angularVelocity, angularDamping>>
          ELSE /\ angularDamping' = angularDampingValue
               /\ angularVelocity' = Vec(0, moveRotationSpeed * (IF angle > 0 THEN 1 ELSE -1), 0)
               /\ UNCHANGED rotationYaw

\* movePlayerToPointerTarget(), run by the onBeforeRenderObservable callback
movePlayerToPointerTarget ==
    LET startTime == IF movementStartTime = 0 THEN now ELSE movementStartTime
        direction == toTarget(Val(targetPosition), charPos)
        distance == Length(direction)
        elapsed == now - startTime
    IN IF targetPosition = None
       THEN /\ movementStartTime' = startTime
            /\ frameOutcome("idle", 0, 0)
            /\ UNCHANGED <<targetPosition, lastPlayerPosition, bodyVars>>
       ELSE IF hasReached_rigid(distance)
       THEN /\ clearMovement
            /\ frameOutcome("arrived", distance, stuckThreshold)
            /\ UNCHANGED <<angularDamping, rotationYaw>>
       ELSE IF elapsed <= stuckWindowMs
       THEN /\ movementStartTime' = startTime
            /\ applyMovement(normalized(direction))
            /\ frameOutcome("pursuing", distance, stuckThreshold)
            /\ UNCHANGED <<targetPosition, lastPlayerPosition>>
       ELSE IF hasPlayerMovedSignificantly
       THEN /\ movementStartTime' = now
            /\ lastPlayerPosition' = Some(charPos)
            /\ applyMovement(normalized(direction))
            /\ frameOutcome("pursuing", distance, stuckThreshold)
            /\ UNCHANGED targetPosition
       ELSE /\ clearMovement
            /\ frameOutcome("stalled", distance, stuckThreshold)
            /\ UNCHANGED <<angularDamping, rotationYaw>>

--------------------------------------------------------------------------
\* The host: the clock and the physics engine moving the body

\* the observer or callback `name` is still registered
Registered(name) == name \in subscriptions

\* the monitor of the input events: what the last one was and whether a
\* click target was active when it arrived.  A run that starts from Unwatched
\* keeps no monitor.
Unwatched == [kind |-> "unwatched", hadTarget |-> FALSE]

NoInput == [kind |-> "none", hadTarget |-> FALSE]

TargetActive == IF controller = "character" THEN targetPoint # None ELSE targetPosition # None

\* the monitor of the clicks and the frames: when the last accepted click set
\* its target, when the last before-render callback ran and the
\* scene.deltaTime it read.  A run that starts from Unwatched keeps no monitor.
NoProbe == [targetSetMs |-> 0, frameMs |-> 0, deltaTime |-> None]

Watch(kind) ==
    /\ lastInput' = IF lastInput = Unwatched THEN lastInput
                    ELSE [kind |-> kind, hadTarget |-> TargetActive]
    /\ probe' = IF probe # Unwatched /\ kind = "click"
                THEN [probe EXCEPT !.targetSetMs = now]
                ELSE probe

\* the before-render callback reads scene.deltaTime
WatchFrame(deltaTime) ==
    probe' = IF probe = Unwatched THEN probe
             ELSE [probe EXCEPT !.deltaTime = deltaTime, !.frameMs = now]

\* the clock has advanced since the last render frame
FrameDue == probe.frameMs < now

\* performance.now() advances
Tick(stepMs, maxTicks) ==
    /\ now + stepMs <= StartTimeMs + maxTicks * stepMs
    /\ now' = now + stepMs
    /\ UNCHANGED <<charPos, lastFrame, controller, locoVars, plannerVars, rigidVars, sceneVars>>

\* performance.now() advances without end.  Up to the horizon the clock
\* counts; from there on the clock stays and every recorded time is moved
\* back by the step instead (never below the start, and the unset 0 stays 0),
\* so each difference now - t grows until it reaches the horizon, which is
\* beyond every timeout the planners compare it with.
TickForever(stepMs, maxTicks) ==
    LET horizon == StartTimeMs + maxTicks * stepMs
        rebased(t) == IF t = 0 THEN 0 ELSE Max(t - stepMs, StartTimeMs)
    IN /\ IF now + stepMs <= horizon
          THEN /\ now' = now + stepMs
               /\ UNCHANGED <<lastDistanceTimeMs, movementStartTime, watchTimeMs>>
          ELSE /\ now' = now
               /\ lastDistanceTimeMs' = rebased(lastDistanceTimeMs)
               /\ movementStartTime' = rebased(movementStartTime)
               /\ watchTimeMs' = rebased(watchTimeMs)
       /\ UNCHANGED <<charPos, lastFrame, controller, locoVars, pointerVars, targetPoint,
                      lastDistance, rigidPointerVars, targetPosition, lastPlayerPosition,
                      bodyVars, watchDistance, sceneVars>>

\* the engine integrates the body to another position
BodyMoves(positions) ==
    /\ \E q \in positions : q # charPos /\ charPos' = q
    /\ UNCHANGED <<now, lastFrame, controller, locoVars, plannerVars, rigidVars, sceneVars>>

--------------------------------------------------------------------------
\* the state after construction, whichever PointerController is installed,
\* once the user has turned the character to yaw y
\* the keys of the keyboardState initialiser of KeyboardController
TrackedCodes ==
    {"ArrowLeft", "ArrowRight", "ArrowUp", "ArrowDown", "KeyA", "KeyD", "KeyW", "KeyS",
     "Space", "ShiftLeft", "ShiftRight"}

ConstructedFacing(y) ==
    /\ state = "IN_AIR"
    /\ wantJump = FALSE
    /\ inputDirection = Zero
    /\ turnInput = 0
    /\ yaw = y
    /\ lastStep = NoStep
    /\ everSupported = FALSE
    /\ sinceJump = "none"
    /\ isMouseDown = FALSE
    /\ heldKeys = <<>>
    /\ keyboardState = [code \in TrackedCodes |-> FALSE]
    /\ targetPoint = None
    /\ lastDistance = None
    /\ lastDistanceTimeMs = 0
    /\ isPointerDown = FALSE
    /\ isDragging = FALSE
    /\ pointerDownPos = Pt(0, 0)
    /\ prevPos = Pt(0, 0)
    /\ activePointerId = None
    /\ activePointerType = None
    /\ targetPosition = None
    /\ movementStartTime = 0
    /\ lastPlayerPosition = None
    /\ pointerDownPosition = Pt(0, 0)
    /\ prevPointerDownPosition = Pt(0, 0)
    /\ activeTouches = <<>>
    /\ pinchLastDistance = None
    /\ cursor = None
    /\ linearVelocity = Zero
    /\ angularVelocity = Zero
    /\ watchDistance = None
    /\ watchTimeMs = 0
    /\ now = StartTimeMs
    /\ charPos = StartPosition
    /\ lastFrame = [seq |-> 0, outcome |-> "none"]

\* the state after construction: yaw = 0
Constructed == ConstructedFacing(0)

\* what the constructors register on the scene: CharacterControls.attach and
\* the character-controller PointerController, or the rigid-body one
registrations(c) ==
    IF c = "character" THEN {"controls.pointer", "controls.keyboard", "pointer", "render"}
    ELSE {"pointer", "keyboard", "wheel", "render"}

\* the rigid body is built facing the origin, with its angular damping set
\* the callbacks on scene.onDisposeObservable once the initialisation is over
disposeCallbacks(c) ==
    IF c = "character" THEN {"detach", "pointer.dispose"}
    ELSE {"pointer.dispose", "keyboard.dispose"}

\* the initialisation is over, the render loop runs
Mounted(c) ==
    [init |-> "done", disposed |-> FALSE, rendering |-> TRUE, onDispose |-> disposeCallbacks(c)]

BuiltFacing(c, y) ==
    /\ ConstructedFacing(y)
    /\ lifecycle = Mounted(c)
    /\ controller = c
    /\ subscriptions = registrations(c)
    /\ rotationYaw = IF c = "rigid"
                     THEN Some(Atan2(-StartPosition.x, -StartPosition.z))
                     ELSE None
    /\ angularDamping = IF c = "rigid" THEN angularDampingValue ELSE 0

Built(c) == BuiltFacing(c, 0)

Init == Built("character") /\ lastInput = Unwatched /\ probe = Unwatched

\* The engine values of the control runs: every support state on a flat still
\* surface, one resolution, a falling and a rising body.
ControlSupports ==
    {s \in SupportInfos : s.supportedState # "SUPPORTED"
                          \/ (s.averageSurfaceNormal = upWorld
                              /\ s.averageSurfaceVelocity = Zero)}

ControlResolved == {Vec(5000, 500, 0)}

ControlVelocities == {Vec(3000, -2000, 1000), Vec(0, 4000, 0)}

JumpKeys == {" "}

Next ==
    \/ PhysicsStep(ControlSupports, ControlResolved, ControlVelocities)
          /\ UNCHANGED <<plannerVars, rigidVars, hostVars, sceneVars>>
    \/ \E k \in Keys : KeyDown(k) /\ UNCHANGED <<plannerVars, rigidVars, hostVars, sceneVars>>
    \/ \E k \in Keys : KeyUp(k) /\ UNCHANGED <<plannerVars, rigidVars, hostVars, sceneVars>>

\* The state machine under every key event
Spec == Init /\ [][Next]_vars

NextVelocity ==
    \/ PhysicsStep(SupportInfos, ResolvedVelocities, EngineVelocities)
          /\ UNCHANGED <<plannerVars, rigidVars, hostVars, sceneVars>>
    \/ \E k \in JumpKeys : KeyDown(k) /\ UNCHANGED <<plannerVars, rigidVars, hostVars, sceneVars>>
    \/ \E k \in JumpKeys : KeyUp(k) /\ UNCHANGED <<plannerVars, rigidVars, hostVars, sceneVars>>

\* The velocity computation under every engine value
SpecVelocity == Init /\ [][NextVelocity]_vars

--------------------------------------------------------------------------
\* Click-to-move with the character controller

\* the point the clicks land on
ClickTarget == Vec(0, 0, 0)

\* body positions; horizontal distances to ClickTarget are
\* 538, 532 (progress), 535 (within stuckEpsilon),
\* 35 (on the stop distance) and 28 (arrived, 3 units above the target)
CharPositions ==
    { StartPosition, Vec(-200, 300, 494), Vec(-200, 300, 497),
      Vec(35, 300, 0), Vec(20, 300, 20) }

\* what scene.pick can return: nothing, a hit without a point, the ground, a
\* panel of the user interface
Picks ==
    { [hit |-> FALSE, pickedPoint |-> None, pickedMesh |-> ""],
      [hit |-> TRUE, pickedPoint |-> None, pickedMesh |-> "ground"],
      [hit |-> TRUE, pickedPoint |-> Some(ClickTarget), pickedMesh |-> "ground"],
      [hit |-> TRUE, pickedPoint |-> Some(ClickTarget), pickedMesh |-> "Side Panel"] }

\* the picks of a click outside any surface or on a user-interface mesh
DroppedPicks == {pick \in Picks : pick.pickedMesh # "ground" \/ pick.pickedPoint = None}

\* one mouse pointer, pressed at the origin
PointerDowns ==
    { [pointerId |-> 1, pointerType |-> Some("mouse"), clientX |-> 0, clientY |-> 0] }

\* moved or released within and beyond the drag threshold
PointerMoves ==
    { [pointerId |-> 1, pointerType |-> Some("mouse"), clientX |-> x, clientY |-> 0] :
        x \in {0, 5} }

\* scene.deltaTime at a render frame, ms
FrameDeltas == {None, Some(0), Some(250)}

\* what the pointer observers and the before-render callback of the
\* character-controller scene never touch
plannerRest == <<stateMachineVars, rigidPointerVars, rigidMovementVars, bodyVars,
                 heldKeys, keyboardState, lifecycle, subscriptions>>


\* scene.onBeforeRenderObservable notifies the update loop
BeforeRender(deltas) ==
    /\ Registered("render")
    /\ \E deltaTime \in deltas : stepClickToMove(deltaTime) /\ WatchFrame(deltaTime)
    /\ UNCHANGED <<now, charPos, controller, plannerRest, isMouseDown, lastInput>>

\* event.movementX: the move since the previous event of the same pointer,
\* which is at prevPos for the pointer that is held; an event of another
\* pointer carries its own
movementX(e) ==
    IF "movementX" \in DOMAIN e /\ activePointerId # Some(e.pointerId)
    THEN e.movementX
    ELSE e.clientX - prevPos.x

\* scene.onPointerObservable notifies its observers in the order they were
\* added: CharacterControls first, the PointerController second
PointerDown(e) ==
    /\ Registered("controls.pointer") \/ Registered("pointer")
    /\ isMouseDown' = IF Registered("controls.pointer")
                      THEN controlsMouseDown("POINTERDOWN") ELSE isMouseDown
    /\ IF Registered("pointer") THEN onPointerDown(e)
       ELSE UNCHANGED <<plannerVars, yaw, inputDirection>>
    /\ Watch("down")
    /\ UNCHANGED <<hostVars, watchVars, plannerRest>>

PointerMove(e) ==
    /\ Registered("controls.pointer") \/ Registered("pointer")
    /\ isMouseDown' = IF Registered("controls.pointer")
                      THEN controlsMouseDown("POINTERMOVE") ELSE isMouseDown
    /\ LET controlsYaw == IF Registered("controls.pointer")
                          THEN controlsPointerYaw("POINTERMOVE", movementX(e))
                          ELSE yaw
       IN IF Registered("pointer") THEN onPointerMove(e, controlsYaw)
          ELSE /\ yaw' = controlsYaw
               /\ UNCHANGED <<plannerVars, inputDirection>>
    /\ yaw' = yaw \/ Abs(yaw') <= MaxPlannerYaw
    /\ Watch("move")
    /\ UNCHANGED <<hostVars, watchVars, plannerRest>>

PointerUp(e, pick) ==
    /\ Registered("controls.pointer") \/ Registered("pointer")
    /\ isMouseDown' = IF Registered("controls.pointer")
                      THEN controlsMouseDown("POINTERUP") ELSE isMouseDown
    /\ IF Registered("pointer") THEN onPointerUp(e, pick)
       ELSE UNCHANGED <<plannerVars, yaw, inputDirection, watchDistance>>
    /\ Watch(IF ~Registered("pointer") \/ activePointerId # Some(e.pointerId) THEN "up"
             ELSE IF HypotExceeds(e.clientX - pointerDownPos.x, e.clientY - pointerDownPos.y,
                                  dragThreshold(activePointerType))
             THEN "drag released"
             ELSE IF pick \in DroppedPicks THEN "click dropped"
             ELSE "click")
    /\ UNCHANGED <<hostVars, watchTimeMs, plannerRest>>

NextPlanner ==
    \/ controller = "character" /\ BeforeRender(FrameDeltas)
    \/ controller = "character" /\ \E e \in PointerDowns : PointerDown(e)
    \/ controller = "character" /\ \E e \in PointerMoves : PointerMove(e)
    \/ controller = "character" /\ \E e \in PointerMoves, pick \in Picks : PointerUp(e, pick)
    \/ controller = "character" /\ Tick(TickMs, MaxTicks)
    \/ controller = "character" /\ BodyMoves(CharPositions)

SpecPlanner == Init /\ [][NextPlanner]_vars

--------------------------------------------------------------------------
\* Click-to-move with the rigid body

\* body positions; horizontal distances to ClickTarget are 538, 538 (sideways,
\* 4 units from the start), 25 (on the arrival distance) and 22 (arrived,
\* 3 units above the target)
RigidPositions ==
    { StartPosition, Vec(200, 300, 500), Vec(25, 300, 0), Vec(10, 300, 20) }

RigidPicks ==
    { [hit |-> FALSE, pickedPoint |-> None, pickedMesh |-> ""],
      [hit |-> TRUE, pickedPoint |-> None, pickedMesh |-> "ground"],
      [hit |-> TRUE, pickedPoint |-> Some(ClickTarget), pickedMesh |-> "ground"],
      [hit |-> TRUE, pickedPoint |-> Some(ClickTarget), pickedMesh |-> "npc"] }

DroppedRigidPicks ==
    {pick \in RigidPicks : pick.pickedMesh # "ground" \/ pick.pickedPoint = None}

\* what the rigid-body handlers never touch
rigidRest == <<locoVars, trackingVars, pointerDownPos, prevPos, activePointerId,
               activePointerType, isMouseDown, heldKeys, keyboardState, lifecycle, subscriptions>>

BeforeRender_rigid ==
    /\ Registered("render")
    /\ movePlayerToPointerTarget
    /\ UNCHANGED <<now, charPos, controller, rigidRest, isPointerDown, isDragging,
                   rigidPointerVars, lastInput, probe>>

PointerDown_rigid(e) ==
    /\ Registered("pointer")
    /\ onPointerDown_rigid(e)
    /\ Watch("down")
    /\ UNCHANGED <<hostVars, rigidRest>>

\* the move is a pinch step beyond the deadzone
pinchCommand(e) ==
    LET touches == touchesSet(activeTouches, e.pointerId, e.clientX, e.clientY)
    IN /\ isTouch(e)
       /\ touchesHas(activeTouches, e.pointerId)
       /\ Len(touches) >= 2
       /\ pinchLastDistance # None
       /\ Abs(getPinchDistance(touches) - Val(pinchLastDistance)) >= pinchDeadzonePx

PointerMove_rigid(e, pick) ==
    /\ Registered("pointer")
    /\ onPointerMove_rigid(e, pick)
    /\ Watch(IF pinchCommand(e) THEN "pinch" ELSE "move")
    /\ UNCHANGED <<hostVars, rigidRest>>

PointerUp_rigid(e, pick) ==
    /\ Registered("pointer")
    /\ onPointerUp_rigid(e, pick)
    /\ Watch(IF ~HypotBelow(e.clientX - pointerDownPosition.x,
                            e.clientY - pointerDownPosition.y, dragThreshold_rigid)
             THEN "drag released"
             ELSE IF pick \in DroppedRigidPicks THEN "click dropped"
             ELSE "click")
    /\ UNCHANGED <<hostVars, rigidRest>>

NextRigid ==
    \/ controller = "rigid" /\ BeforeRender_rigid
    \/ controller = "rigid" /\ \E e \in PointerDowns : PointerDown_rigid(e)
    \/ controller = "rigid" /\ \E e \in PointerMoves, pick \in RigidPicks : PointerMove_rigid(e, pick)
    \/ controller = "rigid" /\ \E e \in PointerMoves, pick \in RigidPicks : PointerUp_rigid(e, pick)
    \/ controller = "rigid" /\ Tick(RigidTickMs, MaxRigidTicks)
    \/ controller = "rigid" /\ BodyMoves(RigidPositions)

InitRigid == Built("rigid") /\ lastInput = Unwatched /\ probe = Unwatched

SpecRigid == InitRigid /\ [][NextRigid]_vars

--------------------------------------------------------------------------
\* Click-to-move with either controller

Controllers == {"character", "rigid"}

InitClickToMove == (\E c \in Controllers : Built(c)) /\ lastInput = Unwatched /\ probe = Unwatched

NextClickToMove == NextPlanner \/ NextRigid

SpecClickToMove == InitClickToMove /\ [][NextClickToMove]_vars

\* The clicks alone, with the input events watched: the body at its start or
\* a step closer, one frame rate, MaxClickTicks ticks of the clock
ClickPositions == {StartPosition, Vec(-200, 300, 494)}

ClickDeltas == {Some(250)}

\* moved or released on the press point, one pixel from it (within both
\* drag thresholds) and beyond the thresholds
GestureMoves ==
    { [pointerId |-> 1, pointerType |-> Some("mouse"), clientX |-> x, clientY |-> 0] :
        x \in {0, 1, 5} }

MaxClickTicks == 3

InitClick == (\E c \in Controllers : Built(c)) /\ lastInput = NoInput /\ probe = Unwatched

NextClick ==
    \/ controller = "character" /\ BeforeRender(ClickDeltas)
    \/ controller = "character" /\ \E e \in PointerDowns : PointerDown(e)
    \/ controller = "character" /\ \E e \in GestureMoves : PointerMove(e)
    \/ controller = "character" /\ \E e \in GestureMoves, pick \in Picks : PointerUp(e, pick)
    \/ controller = "rigid" /\ BeforeRender_rigid
    \/ controller = "rigid" /\ \E e \in PointerDowns : PointerDown_rigid(e)
    \/ controller = "rigid" /\ \E e \in GestureMoves, pick \in RigidPicks : PointerMove_rigid(e, pick)
    \/ controller = "rigid" /\ \E e \in GestureMoves, pick \in RigidPicks : PointerUp_rigid(e, pick)
    \/ Tick(RigidTickMs, MaxClickTicks)
    \/ BodyMoves(ClickPositions)

SpecClick == InitClick /\ [][NextClick]_vars

--------------------------------------------------------------------------
\* Keyboard and click-to-move in one scene

\* the keys pressed: forward, a turn key, and one that is bound to nothing
SceneKeys == {"w", "ArrowLeft", "q"}

\* the physics step of these runs: supported on flat still ground
SceneSupports ==
    {s \in SupportInfos : s.supportedState = "SUPPORTED" /\ s.averageSurfaceNormal = upWorld
                          /\ s.averageSurfaceVelocity = Zero}

\* the monitor of the held keys: k goes last
holdKey(keys, k) == Append(SelectSeq(keys, LAMBDA h : h # k), k)

releaseKey(keys, k) == SelectSeq(keys, LAMBDA h : h # k)

isHeld(k) == \E i \in 1..Len(heldKeys) : heldKeys[i] = k

\* scene.onKeyboardObservable notifies the CharacterControls observer
SceneKeyDown(k) ==
    /\ Registered("controls.keyboard")
    /\ KeyDown(k)
    /\ heldKeys' = holdKey(heldKeys, k)
    /\ UNCHANGED <<keyboardState, lifecycle>>
    /\ Watch("keydown")
    /\ UNCHANGED <<plannerVars, rigidVars, hostVars, isMouseDown, subscriptions>>

\* the key-up of a key that is held
SceneKeyUp(k) ==
    /\ Registered("controls.keyboard")
    /\ isHeld(k)
    /\ KeyUp(k)
    /\ heldKeys' = releaseKey(heldKeys, k)
    /\ UNCHANGED <<keyboardState, lifecycle>>
    /\ Watch("keyup")
    /\ UNCHANGED <<plannerVars, rigidVars, hostVars, isMouseDown, subscriptions>>

\* scene.onKeyboardObservable notifies the rigid-body PointerController
KeyDown_rigid(k) ==
    /\ Registered("keyboard")
    /\ onKeyDown_rigid(k)
    /\ Watch("keydown")
    /\ UNCHANGED <<hostVars, rigidRest, isPointerDown, isDragging, rigidPointerVars,
                   angularDamping, rotationYaw, watchVars>>

\* the after-physics callback of the character-controller scene
ScenePhysicsStep ==
    /\ PhysicsStep(SceneSupports, ControlResolved, {Zero})
    /\ UNCHANGED <<plannerVars, rigidVars, hostVars, sceneVars>>

NextKeys ==
    \/ controller = "character" /\ BeforeRender(ClickDeltas)
    \/ controller = "character" /\ \E e \in PointerDowns : PointerDown(e)
    \/ controller = "character" /\ \E e \in PointerDowns, pick \in Picks : PointerUp(e, pick)
    \/ controller = "character" /\ \E k \in SceneKeys : SceneKeyDown(k)
    \/ controller = "character" /\ \E k \in SceneKeys : SceneKeyUp(k)
    \/ controller = "character" /\ ScenePhysicsStep
    \/ controller = "rigid" /\ BeforeRender_rigid
    \/ controller = "rigid" /\ \E e \in PointerDowns : PointerDown_rigid(e)
    \/ controller = "rigid" /\ \E e \in PointerDowns, pick \in RigidPicks : PointerUp_rigid(e, pick)
    \/ controller = "rigid" /\ \E k \in SceneKeys : KeyDown_rigid(k)
    \/ BodyMoves(ClickPositions)

SpecKeys == InitClick /\ [][NextKeys]_vars

--------------------------------------------------------------------------
\* Dolly commands on the rigid body: two fingers and the scroll wheel

\* the first finger lands on the origin, the second ten pixels to its right
TouchDowns ==
    { [pointerId |-> 1, pointerType |-> Some("touch"), clientX |-> 0, clientY |-> 0],
      [pointerId |-> 2, pointerType |-> Some("touch"), clientX |-> 10, clientY |-> 0] }

\* the first finger stays where it landed; the second moves or lifts 10, 11
\* (within the pinch deadzone) or 13 pixels from the origin
TouchMoves ==
    { [pointerId |-> 1, pointerType |-> Some("touch"), clientX |-> 0, clientY |-> 0] }
    \cup { [pointerId |-> 2, pointerType |-> Some("touch"), clientX |-> x, clientY |-> 0] :
             x \in {10, 11, 13} }

WheelEvents == { [ctrlKey |-> c, deltaY |-> d] : c \in BOOLEAN, d \in {-100, 100} }

\* the canvas notifies the wheel handler
Wheel(event) ==
    /\ Registered("wheel")
    /\ onWheel(event)
    /\ Watch(IF event.ctrlKey THEN "wheel" ELSE "wheel ignored")
    /\ UNCHANGED <<hostVars, rigidRest, isPointerDown, isDragging, rigidPointerVars,
                   angularDamping, rotationYaw, watchVars>>

InitDolly == Built("rigid") /\ lastInput = NoInput /\ probe = Unwatched

NextDolly ==
    \/ BeforeRender_rigid
    \/ \E e \in TouchDowns : PointerDown_rigid(e)
    \/ \E e \in TouchMoves, pick \in RigidPicks : PointerMove_rigid(e, pick)
    \/ \E e \in TouchMoves, pick \in RigidPicks : PointerUp_rigid(e, pick)
    \/ \E event \in WheelEvents : Wheel(event)

SpecDolly == InitDolly /\ [][NextDolly]_vars

--------------------------------------------------------------------------
\* Pursuit without end: frames keep coming, the clock keeps advancing, the
\* body goes where the engine takes it, and a click is made only while no
\* target is active

PursuitTickMs == 700

MaxPursuitTicks == 2

\* the before-render callback of the installed controller
Frame ==
    \/ controller = "character" /\ BeforeRender(ClickDeltas)
    \/ controller = "rigid" /\ BeforeRender_rigid

Clock == TickForever(PursuitTickMs, MaxPursuitTicks)

NextPursuit ==
    \/ Frame
    \/ Clock
    \/ controller = "character" /\ ~TargetActive /\ \E e \in PointerDowns : PointerDown(e)
    \/ controller = "character" /\ ~TargetActive
          /\ \E e \in PointerDowns, pick \in Picks : PointerUp(e, pick)
    \/ controller = "rigid" /\ ~TargetActive /\ \E e \in PointerDowns : PointerDown_rigid(e)
    \/ controller = "rigid" /\ ~TargetActive
          /\ \E e \in PointerDowns, pick \in RigidPicks : PointerUp_rigid(e, pick)
    \/ controller = "character" /\ BodyMoves(CharPositions)
    \/ controller = "rigid" /\ BodyMoves(RigidPositions)

\* the render loop and the clock never stop.  The callback stays installed in
\* every state of this specification and each frame flips lastFrame.seq, so
\* <<Frame>>_vars is always enabled and WF_vars(Frame) is []<><<Frame>>_vars
SpecPursuit ==
    InitClickToMove /\ [][NextPursuit]_vars /\ []<><<Frame>>_vars /\ WF_vars(Clock)

--------------------------------------------------------------------------
\* Disposal

everythingButSubscriptions ==
    <<locoVars, plannerVars, rigidVars, hostVars, isMouseDown, heldKeys, keyboardState, lifecycle, lastInput, probe>>

\* controls.detach(scene)
Detach == detach /\ UNCHANGED everythingButSubscriptions

\* pointer.dispose() of the character-controller PointerController
Dispose == dispose /\ UNCHANGED everythingButSubscriptions

\* dispose() of the rigid-body PointerController
Dispose_rigid == dispose_rigid /\ UNCHANGED everythingButSubscriptions

\* The subscriptions of the PointerController (pointer, keyboard, wheel,
\* render frames) before and after it is disposed; the keyboard observer of
\* CharacterControls is left out
NextDispose ==
    \/ controller = "character" /\ BeforeRender(ClickDeltas)
    \/ controller = "character" /\ \E e \in PointerDowns : PointerDown(e)
    \/ controller = "character" /\ \E e \in PointerMoves : PointerMove(e)
    \/ controller = "character" /\ \E e \in PointerMoves, pick \in Picks : PointerUp(e, pick)
    \/ controller = "character" /\ Detach
    \/ controller = "character" /\ Dispose
    \/ controller = "rigid" /\ BeforeRender_rigid
    \/ controller = "rigid" /\ \E e \in PointerDowns : PointerDown_rigid(e)
    \/ controller = "rigid" /\ \E e \in PointerMoves, pick \in RigidPicks : PointerMove_rigid(e, pick)
    \/ controller = "rigid" /\ \E e \in PointerMoves, pick \in RigidPicks : PointerUp_rigid(e, pick)
    \/ controller = "rigid" /\ \E k \in SceneKeys : KeyDown_rigid(k)
    \/ controller = "rigid" /\ \E event \in WheelEvents : Wheel(event)
    \/ controller = "rigid" /\ Dispose_rigid
    \/ BodyMoves(ClickPositions)

SpecDispose == InitClickToMove /\ [][NextDispose]_vars

\* The keyboard alone: every order of pressing and releasing these keys
KeyboardKeys == {"w", "s", "ArrowUp", "a", "d", "ArrowRight", " "}

NextKeyboard ==
    \/ \E k \in KeyboardKeys : SceneKeyDown(k)
    \/ \E k \in KeyboardKeys : SceneKeyUp(k)

SpecKeyboard == Init /\ [][NextKeyboard]_vars

--------------------------------------------------------------------------
\* Clicking again while a target is active

\* a second navigable point
SecondTarget == Vec(300, 0, 500)

\* the picks of two accepted clicks
RetargetPicks ==
    { [hit |-> TRUE, pickedPoint |-> Some(t), pickedMesh |-> "ground"] :
        t \in {ClickTarget, SecondTarget} }

\* the clock of these runs: RetargetTickMs at a time, MaxRetargetTicks of them
RetargetTickMs == 400

MaxRetargetTicks == 6

InitRetarget == (\E c \in Controllers : Built(c)) /\ lastInput = NoInput /\ probe = NoProbe

NextRetarget ==
    \/ controller = "character" /\ BeforeRender(ClickDeltas)
    \/ controller = "character" /\ \E e \in PointerDowns : PointerDown(e)
    \/ controller = "character" /\ \E e \in PointerDowns, pick \in RetargetPicks : PointerUp(e, pick)
    \/ controller = "rigid" /\ BeforeRender_rigid
    \/ controller = "rigid" /\ \E e \in PointerDowns : PointerDown_rigid(e)
    \/ controller = "rigid" /\ \E e \in PointerDowns, pick \in RetargetPicks : PointerUp_rigid(e, pick)
    \/ Tick(RetargetTickMs, MaxRetargetTicks)
    \/ BodyMoves(ClickPositions)

SpecRetarget == InitRetarget /\ [][NextRetarget]_vars

--------------------------------------------------------------------------
\* wrapAngle on its own: an angle is wrapped, and the result wrapped again

\* the angles wrapped reach MaxTurns half-turns and a few mrad to either side
MaxTurns == 3

AngleInputs == (-(MaxTurns * PI) - 5)..(MaxTurns * PI + 5)

InitAngles ==
    /\ Built("character")
    /\ lastInput = Unwatched
    /\ probe \in {[angle |-> a, wrapped |-> None, rewrapped |-> None] : a \in AngleInputs}

everythingButProbe ==
    <<locoVars, plannerVars, rigidVars, hostVars, isMouseDown, heldKeys, keyboardState, lifecycle, subscriptions,
      lastInput>>

\* a = wrapAngle(angle)
Wrap ==
    /\ probe.wrapped = None
    /\ probe' = [probe EXCEPT !.wrapped = Some(wrapAngle(probe.angle))]
    /\ UNCHANGED everythingButProbe

\* wrapAngle(a)
Rewrap ==
    /\ probe.wrapped # None
    /\ probe.rewrapped = None
    /\ probe' = [probe EXCEPT !.rewrapped = Some(wrapAngle(Val(probe.wrapped)))]
    /\ UNCHANGED everythingButProbe

NextAngles ==
    \/ Wrap
    \/ Rewrap

SpecAngles == InitAngles /\ [][NextAngles]_vars

--------------------------------------------------------------------------
\* Turning toward the target: the planner's steps from every yaw the user
\* may have left

\* yaw when the click is made: ahead, to either side, half a turn, more than
\* a turn
TurnYaws == {0, 1000, PI, -PI, -7000}

\* the targets clicked: (5, 0, 0) and one behind
TurnTargets == {Vec(500, 0, 0), Vec(-300, 0, -400)}

TurnPicks ==
    { [hit |-> TRUE, pickedPoint |-> Some(t), pickedMesh |-> "ground"] : t \in TurnTargets }

\* where the body is: at the origin, or close to the first target
TurnPositions == {Vec(0, 0, 0), Vec(480, 0, 10)}

\* scene.deltaTime, ms: undefined, zero, a 60 Hz frame, turnSpeed * dt = 1,
\* and beyond
TurnDeltas == {None, Some(0), Some(16), Some(250), Some(300)}

\* the clock of these runs: TurnTickMs at a time, MaxTurnTicks of them
TurnTickMs == 700

MaxTurnTicks == 2

InitTurn ==
    /\ \E y \in TurnYaws : BuiltFacing("character", y)
    /\ lastInput = Unwatched
    /\ probe = NoProbe

NextTurn ==
    \/ FrameDue /\ BeforeRender(TurnDeltas)
    \/ \E e \in PointerDowns : PointerDown(e)
    \/ \E e \in PointerDowns, pick \in TurnPicks : PointerUp(e, pick)
    \/ Tick(TurnTickMs, MaxTurnTicks)
    \/ BodyMoves(TurnPositions)

SpecTurn == InitTurn /\ [][NextTurn]_vars

--------------------------------------------------------------------------
\* One jump from rest on a flat still surface: the engine hands each step the
\* velocity that the step before wrote, the body is supported exactly while it
\* is on the surface, and the monitor integrates the written velocities with
\* the step's dt (height in micrometres: mm/s times ms).
--------------------------------------------------------------------------

\* how the height follows the velocities: by the velocity just written, or by
\* the mean of the velocity before and after the step
Integrators == {"euler", "trapezoid"}

\* the dt of the steps that run; pe.setSubTimeStep(...) fixes one for the
\* whole run
StepDts ==
    {d \in {stepDt(sub, delta) : sub \in SubTimeSteps, delta \in SceneDeltaTimes} :
        stepRuns(d)}

AtRest(scheme, dt) ==
    [height |-> 0, apex |-> 0, velocity |-> Zero, jumped |-> FALSE,
     scheme |-> scheme, dt |-> dt]

\* characterController.checkSupport(dt, down) over the flat surface
FlatSupport(height) ==
    {s \in SupportInfos :
        IF height = 0
        THEN /\ s.supportedState = "SUPPORTED"
             /\ s.averageSurfaceNormal = upWorld
             /\ s.averageSurfaceVelocity = Zero
        ELSE s.supportedState = "UNSUPPORTED"}

\* the way travelled in one step, micrometres
Travel(scheme, step) ==
    IF scheme = "euler" THEN step.written.y * step.dt
    ELSE Quot((step.currentVelocity.y + step.written.y) * step.dt, 2)

\* characterController.integrate(dt, support, characterGravity) in free
\* flight over the surface, and the getVelocity() of the step after
Integrated(step) ==
    IF step.dt <= 0 THEN probe
    ELSE LET height == Max(0, probe.height + Travel(probe.scheme, step))
         IN [probe EXCEPT !.height = height,
                          !.apex = Max(probe.apex, height),
                          !.velocity = step.written,
                          !.jumped = probe.jumped \/ state' = "START_JUMP"]

Landed == probe.jumped /\ state = "IN_AIR" /\ probe.height = 0

JumpStep ==
    /\ ~Landed
    /\ PhysicsStep(FlatSupport(probe.height), {Zero}, {probe.velocity})
    /\ stepRuns(lastStep'.dt) => lastStep'.dt = probe.dt
    /\ probe' = Integrated(lastStep')
    /\ UNCHANGED <<plannerVars, rigidVars, hostVars, isMouseDown, heldKeys, keyboardState, lifecycle,
                   subscriptions, lastInput>>

InitJump ==
    /\ Built("character")
    /\ lastInput = Unwatched
    /\ \E scheme \in Integrators, dt \in StepDts : probe = AtRest(scheme, dt)

NextJump ==
    \/ JumpStep
    \/ \E k \in JumpKeys : KeyDown(k) /\ UNCHANGED <<plannerVars, rigidVars, hostVars, sceneVars>>
    \/ \E k \in JumpKeys : KeyUp(k) /\ UNCHANGED <<plannerVars, rigidVars, hostVars, sceneVars>>

\* One jump from rest, from the key to the landing
SpecJump == InitJump /\ [][NextJump]_vars

--------------------------------------------------------------------------
\* Two pointers on the character-controller scene: a mouse (pointer 1) and a
\* finger (pointer 2), pressed, moved and released in every order.
--------------------------------------------------------------------------

PointerKinds == {<<1, "mouse">>, <<2, "touch">>}

\* pressed at the origin
TwoPointerDowns ==
    { [pointerId |-> p[1], pointerType |-> Some(p[2]), clientX |-> 0, clientY |-> 0] :
        p \in PointerKinds }

\* moved or released on the press point, beyond the mouse threshold and
\* beyond the touch threshold; movementX is the pointer's own last move
TwoPointerMoves ==
    { [pointerId |-> p[1], pointerType |-> Some(p[2]), clientX |-> x, clientY |-> 0,
       movementX |-> mx] :
        p \in PointerKinds, x \in {0, 5, 12}, mx \in {-5, 5} }

TwoPointerPicks == {pick \in Picks : pick.pickedMesh = "ground" /\ pick.pickedPoint # None}

NextPointers ==
    \/ \E e \in TwoPointerDowns : PointerDown(e)
    \/ \E e \in TwoPointerMoves : PointerMove(e)
    \/ \E e \in TwoPointerMoves, pick \in TwoPointerPicks : PointerUp(e, pick)

SpecPointers == Init /\ [][NextPointers]_vars

--------------------------------------------------------------------------
\* Two fingers on the rigid-body scene, the second one creeping a pixel at a
\* time.
--------------------------------------------------------------------------

\* the first finger stays where it landed; the second is 10, 11, 12 or 14
\* pixels from it
PinchMoves ==
    { [pointerId |-> 1, pointerType |-> Some("touch"), clientX |-> 0, clientY |-> 0] }
    \cup { [pointerId |-> 2, pointerType |-> Some("touch"), clientX |-> x, clientY |-> 0] :
             x \in {10, 11, 12, 14} }

NextPinch ==
    \/ BeforeRender_rigid
    \/ \E e \in TouchDowns : PointerDown_rigid(e)
    \/ \E e \in PinchMoves, pick \in RigidPicks : PointerMove_rigid(e, pick)
    \/ \E e \in PinchMoves, pick \in RigidPicks : PointerUp_rigid(e, pick)

SpecPinch == InitDolly /\ [][NextPinch]_vars

--------------------------------------------------------------------------
\* KeyboardController (rigid body): velocities in 1/1000 unit per second,
\* angular velocities in tenths of rad/s.  The runs have no click target and
\* the scene is not disposed.
--------------------------------------------------------------------------

forceMagnitude == 4

\* rotationSpeed = 2
keyboardRotationSpeed == 20

jumpForce == 2000

\* { mass: 1, ... } of the player's aggregate
playerMass == 1

\* this.keyboardState[code] = value: a code that is not a key yet becomes one
setKeyboardState(ks, code, value) ==
    [c \in DOMAIN ks \cup {code} |-> IF c = code THEN value ELSE ks[c]]

\* this.keyboardState.<code>, undefined read as false
keyDown(ks, code) == code \in DOMAIN ks /\ ks[code]

\* onKeyDown(event)
onKeyDown_keyboard(event) ==
    /\ keyboardState' = setKeyboardState(keyboardState, event.code, TRUE)
    /\ UNCHANGED bodyVars

\* onKeyUp(event): the assignment comes first, then `event.code in
\* this.keyboardState` and keyboardStop()
onKeyUp_keyboard(event) ==
    /\ keyboardState' = setKeyboardState(keyboardState, event.code, FALSE)
    /\ linearVelocity' = IF event.code \in DOMAIN keyboardState' THEN Zero ELSE linearVelocity
    /\ UNCHANGED <<angularVelocity, angularDamping, rotationYaw>>

\* player.aggregate.transformNode.getDirection(Axis.X), in 1/1000
rightDirection ==
    IF rotationYaw = None THEN Vec(1000, 0, 0)
    ELSE Vec(Cos(Val(rotationYaw)), 0, -Sin(Val(rotationYaw)))

\* keyboardMove(direction, axis): the linear velocity it sets when the body
\* has velocity v
keyboardMove(direction, front, v) ==
    LET magnitude == IF direction = -1 THEN forceMagnitude ELSE -forceMagnitude
        customForce == Scale(front, magnitude)
    IN Vec(customForce.x, v.y, customForce.z)

\* handleKeyboardState(): the moves overwrite one another in the order of the
\* tests, the jump consumes Space
handleKeyboardState ==
    LET ks == keyboardState
        shiftDown == keyDown(ks, "ShiftLeft") \/ keyDown(ks, "ShiftRight")
        up == keyDown(ks, "ArrowUp") \/ keyDown(ks, "KeyW")
        down == keyDown(ks, "ArrowDown") \/ keyDown(ks, "KeyS")
        left == keyDown(ks, "KeyA") \/ keyDown(ks, "ArrowLeft")
        right == keyDown(ks, "KeyD") \/ keyDown(ks, "ArrowRight")
        v1 == IF up THEN keyboardMove(-1, forwardDirection, linearVelocity) ELSE linearVelocity
        v2 == IF down THEN keyboardMove(1, forwardDirection, v1) ELSE v1
        v3 == IF shiftDown /\ left THEN keyboardMove(1, rightDirection, v2) ELSE v2
        v4 == IF shiftDown /\ right THEN keyboardMove(-1, rightDirection, v3) ELSE v3
        turns == ~shiftDown /\ (left \/ right)
        v5 == IF keyDown(ks, "Space")
              THEN Vec(v4.x, v4.y + (jumpForce * MilliPerUnit) \div playerMass, v4.z)
              ELSE v4
    IN /\ linearVelocity' = v5
       /\ angularVelocity' = IF turns
                             THEN Vec(0, keyboardRotationSpeed * (IF right THEN 1 ELSE -1), 0)
                             ELSE angularVelocity
       /\ angularDamping' = IF turns THEN angularDampingValue ELSE angularDamping
       /\ keyboardState' = IF keyDown(ks, "Space") THEN setKeyboardState(ks, "Space", FALSE)
                           ELSE ks
       /\ UNCHANGED rotationYaw

\* event.key and event.code of the keys pressed: forward, turn or strafe
\* right, shift, jump and a key the controller does not track
KeyboardEvents ==
    { [key |-> "w", code |-> "KeyW"], [key |-> "d", code |-> "KeyD"],
      [key |-> "Shift", code |-> "ShiftLeft"], [key |-> " ", code |-> "Space"],
      [key |-> "q", code |-> "KeyQ"] }

MaxJumps == 2

keyboardRest ==
    <<locoVars, plannerVars, rigidPointerVars, watchVars, hostVars, isMouseDown, heldKeys,
      lifecycle, subscriptions, lastInput, probe>>

\* scene.onKeyboardObservable notifies the PointerController, which only
\* cancels a target, and the KeyboardController
KeyDown_keyboard(e) ==
    /\ onKeyDown_keyboard(e)
    /\ IF Registered("keyboard") THEN onKeyDown_rigid(e.key)
       ELSE UNCHANGED <<rigidMovementVars, linearVelocity, angularVelocity>>
    /\ UNCHANGED keyboardRest

KeyUp_keyboard(e) ==
    /\ onKeyUp_keyboard(e)
    /\ UNCHANGED <<rigidMovementVars, keyboardRest>>

\* scene.onBeforeRenderObservable notifies the update loop of the
\* PointerController, idle without a target, and handleKeyboardState
BeforeRender_keyboard ==
    /\ targetPosition = None
    /\ movementStartTime' = IF movementStartTime = 0 THEN now ELSE movementStartTime
    /\ frameOutcome("idle", 0, 0)
    /\ handleKeyboardState
    /\ linearVelocity'.y <= MaxJumps * ((jumpForce * MilliPerUnit) \div playerMass)
    /\ UNCHANGED <<targetPosition, lastPlayerPosition, locoVars, plannerVars,
                   rigidPointerVars, now, charPos, controller, isMouseDown, heldKeys,
                   lifecycle, subscriptions, lastInput, probe>>

InitKeyboardController == Built("rigid") /\ lastInput = Unwatched /\ probe = Unwatched

NextKeyboardController ==
    \/ \E e \in KeyboardEvents : KeyDown_keyboard(e)
    \/ \E e \in KeyboardEvents : KeyUp_keyboard(e)
    \/ BeforeRender_keyboard

SpecKeyboardController == InitKeyboardController /\ [][NextKeyboardController]_vars

--------------------------------------------------------------------------
\* The asynchronous initialisation of createScene against the cleanup of the
\* BabylonClient effect.  The initialisation is suspended at its awaits: the
\* physics module first, the assets after it; what follows the last await
\* runs in one piece.  Whether an awaited load still completes on a disposed
\* scene is the engine's choice, and so is a failure of what follows.
--------------------------------------------------------------------------

InitStarted == [init |-> "physics", disposed |-> FALSE, rendering |-> TRUE, onDispose |-> {}]

\* Math.PI + Tools.ToRadians(-25), mrad
initialYawOffset == PI - 436

\* the scene fields that the steps of the initialisation and the cleanup
\* leave alone
lifecycleRest ==
    <<stateMachineVars, inputDirection, plannerVars, rigidVars, hostVars, isMouseDown,
      heldKeys, keyboardState, lastInput>>

\* `await HavokPhysics()` resolves
PhysicsLoaded ==
    /\ lifecycle.init = "physics"
    /\ lifecycle' = [lifecycle EXCEPT !.init = "assets"]
    /\ UNCHANGED <<lifecycleRest, yaw, subscriptions, probe>>

\* the last awaited load resolves: controls.attach, the PointerController
\* and its update loop, the after-physics callback, the dispose callbacks
AssetsLoaded ==
    /\ lifecycle.init = "assets"
    /\ subscriptions' = subscriptions \cup registrations("character")
                                      \cup {"window.keydown", "physics"}
    /\ lifecycle' = [lifecycle EXCEPT !.init = "done",
                                      !.onDispose = @ \cup disposeCallbacks("character")]
    /\ yaw' = yaw + initialYawOffset
    /\ UNCHANGED <<lifecycleRest, probe>>

\* an awaited promise rejects: `.catch` reports it
InitRejected ==
    /\ lifecycle.init \in {"physics", "assets"}
    /\ lifecycle' = [lifecycle EXCEPT !.init = "failed"]
    /\ UNCHANGED <<lifecycleRest, yaw, subscriptions, probe>>

\* on a disposed scene the engine may throw once controls.attach has run
AttachedThenThrown ==
    /\ lifecycle.init = "assets"
    /\ lifecycle.disposed
    /\ subscriptions' = subscriptions \cup detachedListeners
    /\ lifecycle' = [lifecycle EXCEPT !.init = "failed", !.onDispose = @ \cup {"detach"}]
    /\ UNCHANGED <<lifecycleRest, yaw, probe>>

\* the effect cleanup: engine.stopRenderLoop(), then scene.dispose() notifies
\* the callbacks that are on onDisposeObservable at that moment
Cleanup ==
    /\ ~lifecycle.disposed
    /\ subscriptions' =
          (subscriptions
             \ (IF "detach" \in lifecycle.onDispose THEN detachedListeners ELSE {}))
             \ (IF "pointer.dispose" \in lifecycle.onDispose THEN disposedListeners ELSE {})
    /\ lifecycle' = [lifecycle EXCEPT !.disposed = TRUE, !.rendering = FALSE,
                                      !.onDispose = {}]
    /\ probe' = [disposedDuring |-> lifecycle.init]
    /\ UNCHANGED <<lifecycleRest, yaw>>

\* the scene takes input and steps while it is mounted
Live == lifecycle.init = "done" /\ ~lifecycle.disposed

LifecycleKeys == {"w", " "}

InitLifecycle ==
    /\ ConstructedFacing(0)
    /\ controller = "character"
    /\ rotationYaw = None
    /\ angularDamping = 0
    /\ subscriptions = {}
    /\ lifecycle = InitStarted
    /\ lastInput = Unwatched
    /\ probe = [disposedDuring |-> "never"]

NextLifecycle ==
    \/ PhysicsLoaded
    \/ AssetsLoaded
    \/ InitRejected
    \/ AttachedThenThrown
    \/ Cleanup
    \/ Live /\ \E k \in LifecycleKeys : SceneKeyDown(k)
    \/ Live /\ \E k \in LifecycleKeys : SceneKeyUp(k)
    \/ Live /\ lifecycle.rendering /\ Registered("physics") /\ ScenePhysicsStep

SpecLifecycle == InitLifecycle /\ [][NextLifecycle]_vars

--------------------------------------------------------------------------
\* Claims on the physics step

StepRan == lastStep.dt > 0

Supported == lastStep.support.supportedState = "SUPPORTED"

\* C1: a physics-step callback whose dt is <= 0 is skipped entirely: the
\* movement state and the intent are unchanged, yaw is not advanced by the
\* keyboard turn update, and neither setVelocity nor integrate (nor any other
\* engine call) is made.
C1_SkippedStepIsNoOp ==
    [][lastStep'.dt <= 0
       => /\ state' = state
          /\ yaw' = yaw
          /\ lastStep'.calls = <<>>
          /\ everSupported' = everSupported]_vars

\* a skipped step taken on the ground with the jump flag set and a turn key held
C1_Witness ==
    /\ lastStep.dt < 0
    /\ lastStep.before = "ON_GROUND"
    /\ lastStep.jump
    /\ turnInput # 0
    /\ state = "ON_GROUND"

\* The transition table as the claim states it
ClaimedNextState(before, supported, jump) ==
    CASE before = "IN_AIR" -> IF supported THEN "ON_GROUND" ELSE "IN_AIR"
      [] before = "ON_GROUND" -> IF ~supported THEN "IN_AIR"
                                 ELSE IF jump THEN "START_JUMP"
                                 ELSE "ON_GROUND"
      [] before = "START_JUMP" -> "IN_AIR"

\* C2: in every executed physics step the next movement state is the claimed
\* function of (current state, support query result, jump flag) alone, whatever
\* dt, the velocities, yaw and the other intent fields are.
C2_TransitionIsPure ==
    StepRan => state = ClaimedNextState(lastStep.before, Supported, lastStep.jump)

\* grounded, jump flag set, the query reports SLIDING: the step goes airborne
C2_Witness ==
    /\ StepRan
    /\ lastStep.before = "ON_GROUND"
    /\ lastStep.jump
    /\ lastStep.support.supportedState = "SLIDING"
    /\ state = "IN_AIR"
    /\ yaw # 0

\* C3: JumpStart is transient.  An executed step that starts in START_JUMP ends
\* in IN_AIR whatever the support query and the jump flag are, and the jump
\* velocity is written exactly in the steps that end in START_JUMP, which are
\* entered from ON_GROUND only.
C3_JumpStartTransient ==
    StepRan =>
        /\ lastStep.before = "START_JUMP" => state = "IN_AIR"
        /\ state = "START_JUMP" => lastStep.before = "ON_GROUND"
        /\ (lastStep.written = startJumpVelocity(lastStep.currentVelocity)
            /\ "calculateMovement" \notin {lastStep.calls[i] : i \in DOMAIN lastStep.calls})
           <=> state = "START_JUMP"

\* the step after a jump start, still supported and with the flag still set
C3_Witness ==
    /\ StepRan
    /\ lastStep.before = "START_JUMP"
    /\ lastStep.jump
    /\ Supported
    /\ state = "IN_AIR"

\* C4: the step that takes ON_GROUND -> START_JUMP clears wantJump.
C4_JumpFlagConsumed ==
    [][(state = "ON_GROUND" /\ state' = "START_JUMP") => wantJump' = FALSE]_vars

\* C5: START_JUMP is only entered from ON_GROUND in a step whose query reports
\* SUPPORTED, after an earlier supported step, and after the previous
\* START_JUMP step (if any) an IN_AIR step and then an ON_GROUND step have run.
C5_JumpOnlyFromGround ==
    [][(state' = "START_JUMP" /\ lastStep'.dt > 0 /\ lastStep' # lastStep)
       => /\ state = "ON_GROUND"
          /\ lastStep'.support.supportedState = "SUPPORTED"
          /\ everSupported
          /\ sinceJump \in {"none", "JAG"}]_vars

\* a second (or later) jump start
C5_Witness == state = "START_JUMP" /\ sinceJump = "J" /\ StepRan

\* C6: in a step that ends IN_AIR the up component written is the body's
\* pre-step up component plus gravity * dt, whatever calculateMovement returned.
C6_GravityOnce ==
    (StepRan /\ state = "IN_AIR")
    => lastStep.written.y = lastStep.currentVelocity.y - GravityMagnitude * lastStep.dt

\* an airborne step whose resolved velocity has a vertical part of its own
C6_Witness ==
    /\ StepRan
    /\ state = "IN_AIR"
    /\ lastStep.resolved.y > 0
    /\ lastStep.currentVelocity.y < 0

FlatGroundStep ==
    /\ StepRan
    /\ state = "ON_GROUND"
    /\ lastStep.support.averageSurfaceNormal = Vec(0, DirUnit, 0)

\* C7 as stated: on a surface whose normal is world-up the slope branch is never
\* taken and the velocity written is calculateMovement's result.
C7_NeverReprojectsOnFlat ==
    FlatGroundStep => ~lastStep.slope /\ lastStep.written = lastStep.resolved

\* C7 amended: on a surface whose normal is world-up the slope branch is taken
\* exactly when the resolved velocity minus the surface velocity has an up
\* component above 1e-3; not taken, the velocity written is calculateMovement's
\* result; taken, it is that result with its up component replaced by the
\* surface velocity's.
C7_ReprojectsOnFlatOnlyWhenRising ==
    FlatGroundStep =>
        /\ lastStep.slope
           <=> lastStep.resolved.y - lastStep.support.averageSurfaceVelocity.y > inv1k
        /\ ~lastStep.slope => lastStep.written = lastStep.resolved
        /\ lastStep.slope =>
              lastStep.written = [lastStep.resolved EXCEPT
                                    !.y = lastStep.support.averageSurfaceVelocity.y]

\* the branch taken on a flat moving surface
C7_Witness ==
    /\ FlatGroundStep
    /\ lastStep.slope
    /\ lastStep.support.averageSurfaceVelocity # Zero

\* C8: in a START_JUMP step the velocity written is the current velocity with
\* its up component replaced by sqrt(2 * |gravity| * jumpHeight) (here to the
\* 1/1000 unit/s grid), whatever the current vertical speed is.
C8_JumpVelocity ==
    (StepRan /\ state = "START_JUMP") =>
        /\ lastStep.written.x = lastStep.currentVelocity.x
        /\ lastStep.written.z = lastStep.currentVelocity.z
        /\ lastStep.written.y >= 0
        /\ 10 * lastStep.written.y * lastStep.written.y
              <= 2 * GravityMagnitude * jumpHeightTenths * MilliPerUnit * MilliPerUnit
        /\ 2 * GravityMagnitude * jumpHeightTenths * MilliPerUnit * MilliPerUnit
              < 10 * (lastStep.written.y + 1) * (lastStep.written.y + 1)

\* a jump started while falling
C8_Witness ==
    /\ StepRan
    /\ state = "START_JUMP"
    /\ lastStep.currentVelocity.y < 0
    /\ lastStep.currentVelocity.x # 0


--------------------------------------------------------------------------
\* Click-to-move claims

\* a before-render callback ran in this step
FrameStep == lastFrame'.seq # lastFrame.seq

\* the squared horizontal (Y-ignored) distance from pos to target
HorizontalDistanceSq(target, pos) ==
    (target.x - pos.x) * (target.x - pos.x) + (target.z - pos.z) * (target.z - pos.z)

\* C9: whenever the planner steps with an active target whose horizontal
\* (Y-ignored) distance from the character is below the controller's stop
\* distance, that very step clears the target and sets the movement intent
\* to the zero vector: inputDirection with the character controller, the
\* commanded body velocity with the rigid body.
C9_ArrivalClearsTarget ==
    [][FrameStep =>
        /\ (controller = "character" /\ targetPoint # None
            /\ HorizontalDistanceSq(Val(targetPoint), charPos) < stopDistance * stopDistance)
           => (targetPoint' = None /\ inputDirection' = Zero)
        /\ (controller = "rigid" /\ targetPosition # None
            /\ HorizontalDistanceSq(Val(targetPosition), charPos) < reachedDistance * reachedDistance)
           => (targetPosition' = None /\ linearVelocity' = Zero)]_vars

\* the character controller has just arrived, 3 units above the clicked
\* point, after steering toward it
C9_Witness ==
    /\ controller = "character"
    /\ lastFrame.outcome = "arrived"
    /\ targetPoint = None
    /\ inputDirection = Zero
    /\ yaw # 0
    /\ charPos.y - ClickTarget.y = 300
    /\ HorizontalDistanceSq(ClickTarget, charPos) < stopDistance * stopDistance

\* the distance the before-render callback sees, when a target is active
SeenDistance(target) == Sqrt(HorizontalDistanceSq(Val(target), charPos))

\* the callbacks have seen no improvement of more than `epsilon` on the best
\* distance for longer than `timeoutMs`
NoProgressFor(target, epsilon, timeoutMs) ==
    /\ target # None
    /\ watchDistance # None
    /\ ~(SeenDistance(target) < Val(watchDistance) - epsilon)
    /\ now - watchTimeMs > timeoutMs

\* C10, the character controller: if the distance to the active target has
\* not decreased by more than stuckEpsilon below the best recorded distance
\* for longer than stuckTimeoutMs, the step that observes this clears the
\* target and zeroes inputDirection.
C10_StallClearsTarget_character ==
    [][(FrameStep /\ controller = "character"
        /\ NoProgressFor(targetPoint, stuckEpsilon, stuckTimeoutMs))
       => (targetPoint' = None /\ inputDirection' = Zero)]_vars

\* the character controller has just abandoned a target it never got closer to
C10_Witness_character ==
    /\ controller = "character"
    /\ lastFrame.outcome = "stalled"
    /\ targetPoint = None
    /\ inputDirection = Zero
    /\ now > stuckTimeoutMs

\* C10: with either controller, if the distance to the active target has not
\* decreased by more than the stall epsilon below the best recorded distance
\* for longer than the stall timeout, the step that observes this clears the
\* target and zeroes the movement intent.  The rigid body is given its own
\* constants: stuckThreshold and the one-second window.
C10_StallClearsTarget ==
    [][FrameStep =>
        /\ (controller = "character"
            /\ NoProgressFor(targetPoint, stuckEpsilon, stuckTimeoutMs))
           => (targetPoint' = None /\ inputDirection' = Zero)
        /\ (controller = "rigid"
            /\ NoProgressFor(targetPosition, stuckThreshold, stuckWindowMs))
           => (targetPosition' = None /\ linearVelocity' = Zero)]_vars

--------------------------------------------------------------------------
\* Claims on the pointer gestures

\* this step is a pointer-move event handled while the pointer is held
HeldMoveStep_character == isPointerDown /\ \E e \in PointerMoves : PointerMove(e)

HeldMoveStep_rigid ==
    isPointerDown /\ \E e \in PointerMoves, pick \in RigidPicks : PointerMove_rigid(e, pick)

\* C12, the character controller: a pointer-move event classified as
\* drag-rotate while a target is active clears the target in that event.
C12_DragClearsTarget_character ==
    [][(controller = "character" /\ HeldMoveStep_character /\ isDragging'
        /\ targetPoint # None)
       => targetPoint' = None]_vars

\* C12: with either controller, a pointer-move event classified as
\* drag-rotate while a click-to-move target is active clears the target
\* during the handling of that event.
C12_DragClearsTarget ==
    [][/\ (controller = "character" /\ HeldMoveStep_character /\ isDragging'
           /\ targetPoint # None)
          => targetPoint' = None
       /\ (controller = "rigid" /\ HeldMoveStep_rigid /\ isDragging'
           /\ targetPosition # None)
          => targetPosition' = None]_vars

\* this step is the release of the held pointer where its last move left it
ReleaseStep_character ==
    /\ isPointerDown
    /\ \E e \in PointerMoves, pick \in Picks :
          /\ activePointerId = Some(e.pointerId)
          /\ Pt(e.clientX, e.clientY) = prevPos
          /\ PointerUp(e, pick)

ReleaseStep_rigid ==
    /\ isPointerDown
    /\ \E e \in PointerMoves, pick \in RigidPicks :
          /\ Pt(e.clientX, e.clientY) = prevPointerDownPosition
          /\ PointerUp_rigid(e, pick)

\* C17: the release of a gesture that was classified as a drag never sets a
\* click target, wherever the pointer is released: the target after the
\* release is the target before it.
C17_DragNeverSetsTarget ==
    [][/\ (controller = "character" /\ isDragging /\ ReleaseStep_character)
          => targetPoint' = targetPoint
       /\ (controller = "rigid" /\ isDragging /\ ReleaseStep_rigid)
          => targetPosition' = targetPosition]_vars

\* this step is a release handled as a click whose pick is dropped
DroppedClickStep_character ==
    \E e \in GestureMoves, pick \in DroppedPicks :
        /\ activePointerId = Some(e.pointerId)
        /\ ~HypotExceeds(e.clientX - pointerDownPos.x, e.clientY - pointerDownPos.y,
                         dragThreshold(activePointerType))
        /\ PointerUp(e, pick)

DroppedClickStep_rigid ==
    \E e \in GestureMoves, pick \in DroppedRigidPicks :
        /\ HypotBelow(e.clientX - pointerDownPosition.x, e.clientY - pointerDownPosition.y,
                      dragThreshold_rigid)
        /\ PointerUp_rigid(e, pick)

\* C18: a click whose scene pick has no hit, no picked point or hits a
\* filtered mesh sets no target and leaves the previous click target (active
\* or null) and its stall-tracking fields unchanged, with either controller.
C18_DroppedPickChangesNothing ==
    [][/\ (controller = "character" /\ DroppedClickStep_character)
          => UNCHANGED <<targetPoint, lastDistance, lastDistanceTimeMs>>
       /\ (controller = "rigid" /\ DroppedClickStep_rigid)
          => UNCHANGED <<targetPosition, movementStartTime, lastPlayerPosition>>]_vars

\* a click was just dropped while the character controller pursued a target
\* it keeps pursuing, with its recorded distance
C18_Witness ==
    /\ controller = "character"
    /\ lastInput = [kind |-> "click dropped", hadTarget |-> TRUE]
    /\ targetPoint # None
    /\ lastDistance # None
    /\ lastFrame.outcome = "pursuing"

\* the same with the rigid body, which the release has stopped
C18_Witness_rigid ==
    /\ controller = "rigid"
    /\ lastInput = [kind |-> "click dropped", hadTarget |-> TRUE]
    /\ targetPosition # None
    /\ movementStartTime > StartTimeMs
    /\ linearVelocity = Zero

\* this step is a pointer-move event of a held gesture that has not crossed
\* the drag threshold, this event included
SubThresholdMoveStep_character ==
    /\ isPointerDown
    /\ ~isDragging
    /\ \E e \in GestureMoves :
          /\ activePointerId = Some(e.pointerId)
          /\ ~HypotExceeds(e.clientX - pointerDownPos.x, e.clientY - pointerDownPos.y,
                           dragThreshold(activePointerType))
          /\ PointerMove(e)

SubThresholdMoveStep_rigid ==
    /\ isPointerDown
    /\ ~isDragging
    /\ \E e \in GestureMoves, pick \in RigidPicks :
          /\ ~HypotExceeds(e.clientX - pointerDownPosition.x,
                           e.clientY - pointerDownPosition.y, dragThreshold_rigid)
          /\ PointerMove_rigid(e, pick)

\* C16: a pointer-move event received while the pointer is held and before
\* the gesture has crossed the drag threshold changes neither yaw, nor the
\* body's rotation (its orientation and commanded angular velocity), nor the
\* click target.
C16_SubThresholdMoveIgnored ==
    [][/\ (controller = "character" /\ SubThresholdMoveStep_character)
          => UNCHANGED <<yaw, targetPoint>>
       /\ (controller = "rigid" /\ SubThresholdMoveStep_rigid)
          => UNCHANGED <<rotationYaw, angularVelocity, targetPosition>>]_vars

\* C16, each scene on its own
C16_SubThresholdMoveIgnored_character ==
    [][(controller = "character" /\ SubThresholdMoveStep_character)
       => UNCHANGED <<yaw, targetPoint>>]_vars

C16_SubThresholdMoveIgnored_rigid ==
    [][(controller = "rigid" /\ SubThresholdMoveStep_rigid)
       => UNCHANGED <<rotationYaw, angularVelocity, targetPosition>>]_vars

--------------------------------------------------------------------------
\* Claims on the keyboard

\* the keyboard movement keys
MovementKeys == {"w", "a", "s", "d", "ArrowUp", "ArrowDown", "ArrowLeft", "ArrowRight"}

\* this step is the key-down of a movement key while a target is active
MovementKeyDownStep_character ==
    targetPoint # None /\ \E k \in SceneKeys \cap MovementKeys : SceneKeyDown(k)

MovementKeyDownStep_rigid ==
    targetPosition # None /\ \E k \in SceneKeys \cap MovementKeys : KeyDown_rigid(k)

\* C13, the rigid body: a key-down of a movement key while a target is active
\* clears the target (and stops the body) in the handling of that event.
C13_KeyDownCancelsTarget_rigid ==
    [][(controller = "rigid" /\ MovementKeyDownStep_rigid)
       => (targetPosition' = None /\ linearVelocity' = Zero)]_vars

\* the rigid body's target has just been cancelled by a key
C13_Witness_rigid ==
    /\ controller = "rigid"
    /\ lastInput = [kind |-> "keydown", hadTarget |-> TRUE]
    /\ targetPosition = None
    /\ lastFrame.outcome = "pursuing"

\* C13: with either controller, a key-down of a keyboard movement key (W/A/S/D
\* or an arrow key) while a click-to-move target is active cancels the target
\* in the handling of that key event.
C13_KeyDownCancelsTarget ==
    [][/\ (controller = "character" /\ MovementKeyDownStep_character)
          => targetPoint' = None
       /\ (controller = "rigid" /\ MovementKeyDownStep_rigid)
          => targetPosition' = None]_vars

\* this step is an after-physics callback whose keyboard turn update changes yaw
KeyboardTurnsYaw == controller = "character" /\ ScenePhysicsStep /\ yaw' # yaw

\* this step is a before-render callback whose planner changes yaw
PlannerTurnsYaw == controller = "character" /\ BeforeRender(ClickDeltas) /\ yaw' # yaw

\* C14: the click target and the keyboard turn are mutually exclusive drivers
\* of yaw: the per-step turn update changes yaw only while no click target is
\* active, and the planner changes yaw only while the turn axis is zero.
C14_OneYawDriver ==
    [][/\ KeyboardTurnsYaw => targetPoint = None
       /\ PlannerTurnsYaw => turnInput = 0]_vars

\* the keys of the move axis and of the turn axis
MoveKeys == {"w", "s", "ArrowUp", "ArrowDown"}

TurnKeys == {"a", "d", "ArrowLeft", "ArrowRight"}

\* the held keys of a group, in the order they were pressed
HeldOf(group) == SelectSeq(heldKeys, LAMBDA h : h \in group)

\* k is held, and another key of its group, pressed after it, drives the axis
NotDriving(k, group) ==
    /\ k \in group
    /\ isHeld(k)
    /\ HeldOf(group)[Len(HeldOf(group))] # k

\* C19: the key-up of a key that is not driving its axis, while the key that
\* drives the axis is still held, leaves the axis as it is (hold S, press W,
\* release S: the move axis stays +1); the same on the turn axis.
C19_ReleaseKeepsDrivenAxis ==
    [][\A k \in KeyboardKeys :
          /\ (NotDriving(k, MoveKeys) /\ SceneKeyUp(k)) => inputDirection'.z = inputDirection.z
          /\ (NotDriving(k, TurnKeys) /\ SceneKeyUp(k)) => turnInput' = turnInput]_vars

--------------------------------------------------------------------------
\* Claims on the dolly commands

\* this step is a pinch move whose two-finger distance changed by at least
\* the deadzone
PinchCommandStep ==
    \E e \in TouchMoves, pick \in RigidPicks : pinchCommand(e) /\ PointerMove_rigid(e, pick)

\* this step is a scroll of the wheel with the modifier held
WheelCommandStep == \E event \in WheelEvents : event.ctrlKey /\ Wheel(event)

\* C15: a pinch dolly command and a modifier+scroll-wheel dolly command each
\* leave no click target active: a target that was active is cancelled in the
\* handling of that event.
C15_DollyCancelsTarget ==
    [][(targetPosition # None /\ (PinchCommandStep \/ WheelCommandStep))
       => targetPosition' = None]_vars

\* a pinch has just cancelled the target the body was pursuing
C15_Witness ==
    /\ lastInput = [kind |-> "pinch", hadTarget |-> TRUE]
    /\ targetPosition = None
    /\ Len(activeTouches) = 2
    /\ lastFrame.outcome = "pursuing"

\* the scroll wheel has just cancelled the target the body was pursuing
C15_Witness_wheel ==
    /\ lastInput = [kind |-> "wheel", hadTarget |-> TRUE]
    /\ targetPosition = None
    /\ lastFrame.outcome = "pursuing"

--------------------------------------------------------------------------
\* Claims on disposal

\* the PointerController has been disposed
Disposed == ~Registered("pointer")

\* C20: once the controller is disposed, no later input event or render
\* frame changes the movement intent, the click target or the body's velocity.
C20_DisposedIsInert ==
    [][Disposed => UNCHANGED <<inputDirection, targetPoint, targetPosition,
                               linearVelocity, angularVelocity>>]_vars

\* C20, the subscriptions: once the controller is disposed none of the
\* subscriptions it registered is left.
C20_DisposedIsUnsubscribed ==
    Disposed => subscriptions \cap {"pointer", "keyboard", "wheel", "render"} = {}

--------------------------------------------------------------------------
\* Claims on termination

\* C11, the character controller: with frames continuing, time advancing and
\* no new click, an active target is eventually cleared, wherever the body goes.
C11_TargetEventuallyCleared_character ==
    (controller = "character" /\ targetPoint # None) ~> (targetPoint = None)

\* C11: with either controller, frames continuing, time advancing and no new
\* click, every active target is eventually cleared, for every trajectory of
\* the body's position.
C11_TargetEventuallyCleared == TargetActive ~> ~TargetActive

--------------------------------------------------------------------------
\* Claims on clicking again

\* the stall window of the installed controller, ms
StallWindowMs == IF controller = "character" THEN stuckTimeoutMs ELSE stuckWindowMs

\* a before-render callback abandons the target for stall
StallStep == FrameStep /\ lastFrame'.outcome = "stalled"

\* an accepted click arrives while a target is active
RetargetStep_character(pick) ==
    /\ controller = "character" /\ targetPoint # None
    /\ \E e \in PointerDowns : PointerUp(e, pick)
    /\ lastInput'.kind = "click"

RetargetStep_rigid(pick) ==
    /\ controller = "rigid" /\ targetPosition # None
    /\ \E e \in PointerDowns : PointerUp_rigid(e, pick)
    /\ lastInput'.kind = "click"

\* C21 (character-controller PointerController): an accepted click while a
\* target is active leaves the new hit point as the target with its stall
\* tracking restarted, and no target is abandoned for stall before a full
\* stall window has elapsed since it was set
C21_RetargetRestartsStallWindow_character ==
    [][/\ \A pick \in RetargetPicks :
             RetargetStep_character(pick)
                 => /\ targetPoint' = pick.pickedPoint
                    /\ lastDistance' = None
                    /\ lastDistanceTimeMs' = now
       /\ (controller = "character" /\ StallStep)
             => now - probe.targetSetMs >= StallWindowMs]_vars

\* C21: an accepted click while a target is active replaces the target with
\* the new hit point, and the new target is never abandoned for stall before
\* a full stall window has elapsed since it was set, whichever
\* PointerController is installed
C21_RetargetRestartsStallWindow ==
    [][/\ \A pick \in RetargetPicks :
             /\ RetargetStep_character(pick) => targetPoint' = pick.pickedPoint
             /\ RetargetStep_rigid(pick) => targetPosition' = pick.pickedPoint
       /\ StallStep => now - probe.targetSetMs >= StallWindowMs]_vars

--------------------------------------------------------------------------
\* Claims on the angles

\* a and b differ by a whole number of turns
Congruent(a, b) == (a - b) % (2 * PI) = 0

\* C22 (what the loops of wrapAngle do guarantee): the result is congruent to
\* the input modulo 2*pi, lies in the closed interval [-pi, pi], and wrapping
\* it again returns it
C22_WrapAngleClosedRange ==
    /\ probe.wrapped # None
          => /\ Congruent(Val(probe.wrapped), probe.angle)
             /\ Val(probe.wrapped) >= -PI
             /\ Val(probe.wrapped) <= PI
    /\ probe.rewrapped # None => probe.rewrapped = probe.wrapped

C22_Witness_wrapped ==
    /\ probe.angle = 2 * PI + 1
    /\ probe.wrapped = Some(1)
    /\ probe.rewrapped = Some(1)

\* C22: wrapAngle maps every angle to an angle congruent to it modulo 2*pi in
\* the half-open interval (-pi, pi], so -pi is never returned, and wrapping
\* the result again returns it
C22_WrapAngleHalfOpen ==
    /\ probe.wrapped # None
          => /\ Congruent(Val(probe.wrapped), probe.angle)
             /\ Val(probe.wrapped) > -PI
             /\ Val(probe.wrapped) <= PI
    /\ probe.rewrapped # None => probe.rewrapped = probe.wrapped

--------------------------------------------------------------------------
\* Claims on the planner's turn

\* a planner step: the before-render callback of the character-controller
\* scene runs with a target active
PlannerStep == FrameStep /\ controller = "character" /\ targetPoint # None

\* dt of the step, ms
PlannerDt == IF probe'.deltaTime = None THEN 0 ELSE Val(probe'.deltaTime)

\* atan2(dx, dz) of the direction to the target
DesiredYaw ==
    LET dir == normalized(toTarget(Val(targetPoint), charPos))
    IN Atan2(dir.x, dir.z)

\* the shortest signed angle from y to the desired yaw
TurnLeft(y) == wrapAngle(DesiredYaw - y)

\* the step finds the body within the stop distance
ArrivalStep == PlannerStep /\ hasArrived(Length(toTarget(Val(targetPoint), charPos)))

\* C23: in one planner step with an active target, yaw moves toward the
\* desired yaw atan2(dx, dz), and the magnitude of the yaw change is at most
\* turnSpeed * dt radians
C23_TurnRateBounded ==
    [][PlannerStep
          => /\ Abs(TurnLeft(yaw')) <= Abs(TurnLeft(yaw))
             /\ Abs(yaw' - yaw) <= plannerTurnSpeed * Max(PlannerDt, 0)]_vars

\* C23 (what the step does guarantee): yaw moves toward the desired yaw by at
\* most the fraction turnSpeed * dt of the angle left
C23_TurnFractionBounded ==
    [][PlannerStep
          => /\ Abs(TurnLeft(yaw')) <= Abs(TurnLeft(yaw))
             /\ Abs(yaw' - yaw) * 1000
                   <= Abs(TurnLeft(yaw)) * plannerTurnSpeed * Max(PlannerDt, 0)]_vars

\* the turn of the claim: current + min(1, turnSpeed * dt) * wrapAngle(desired - current)
ClaimedYaw ==
    yaw + Quot(TurnLeft(yaw) * Min(1000, plannerTurnSpeed * PlannerDt), 1000)

\* the step sets yaw as claimed: the shortest way, never past the desired yaw,
\* onto it when turnSpeed * dt >= 1, and not at all when dt <= 0
TurnsAsClaimed ==
    IF PlannerDt > 0
    THEN /\ yaw' = ClaimedYaw
         /\ TurnLeft(yaw') * TurnLeft(yaw) >= 0
         /\ Abs(TurnLeft(yaw')) <= Abs(TurnLeft(yaw))
         /\ plannerTurnSpeed * PlannerDt >= 1000 => TurnLeft(yaw') = 0
    ELSE yaw' = yaw

\* C26 (as amended): each planner step with an active target that the body
\* has not reached sets yaw to
\* current + min(1, turnSpeed * dt) * wrapAngle(desiredYaw - current) when
\* dt > 0 and leaves yaw unchanged when dt <= 0
C26_TurnUnlessArrived == [][PlannerStep /\ ~ArrivalStep => TurnsAsClaimed]_vars

\* a step with turnSpeed * dt >= 1 has brought yaw, more than a turn away,
\* onto the desired direction
C26_Witness ==
    /\ controller = "character"
    /\ targetPoint # None
    /\ lastFrame.outcome = "pursuing"
    /\ probe.deltaTime = Some(300)
    /\ probe.frameMs = now
    /\ TurnLeft(yaw) = 0
    /\ yaw # DesiredYaw

\* C26: each planner step with an active target sets yaw to
\* current + min(1, turnSpeed * dt) * wrapAngle(desiredYaw - current) when
\* dt > 0 (the shortest way, never past the desired yaw, onto it when
\* turnSpeed * dt >= 1) and leaves yaw unchanged when dt <= 0
C26_TurnEveryStep == [][PlannerStep => TurnsAsClaimed]_vars

--------------------------------------------------------------------------
\* Claims on the movement vector

\* the slow radius of the claim, 1.2 units
SlowRadius == 12 * 10

\* a planner step that goes on pursuing the target
PursuitStep == PlannerStep /\ lastFrame'.outcome = "pursuing"

\* the magnitude the claim gives the local movement vector at distance dist
TaperedStrength(dist) ==
    IF dist >= SlowRadius THEN clickToMoveStrength
    ELSE Quot(clickToMoveStrength * dist, SlowRadius)

\* C29 (what the step does): the vector has the configured strength at every
\* distance, up to rounding
C29_FullStrength ==
    [][PursuitStep => Abs(Length(inputDirection') - clickToMoveStrength) <= 2]_vars

\* C29: while a target is active and not yet arrived, the local movement
\* vector has the configured strength when the distance is at least the slow
\* radius, and a magnitude tapered linearly toward zero with the distance
\* inside the slow radius
C29_StrengthTapered ==
    [][PursuitStep
          => LET dist == Length(toTarget(Val(targetPoint), charPos))
             IN Abs(Length(inputDirection') - TaperedStrength(dist)) <= 2]_vars

--------------------------------------------------------------------------
\* Claims on the movement command of a cleared target

\* C25 (character-controller scene, the paths that do zero the command): a
\* before-render callback that clears the target, by arrival or by stall,
\* leaves the move intent zero
C25_FrameClearZeroesIntent ==
    [][(PlannerStep /\ targetPoint' = None) => inputDirection' = Zero]_vars

C25_Witness_frame ==
    /\ controller = "character"
    /\ lastFrame.outcome = "stalled"
    /\ targetPoint = None
    /\ inputDirection = Zero
    /\ watchTimeMs > StartTimeMs

\* C25 (rigid-body scene): with no target active the body has no velocity
\* left from the pursuit
C25_ClearedTargetStopsBody ==
    (controller = "rigid" /\ targetPosition = None)
        => (linearVelocity.x = 0 /\ linearVelocity.z = 0)

\* C25: a click-to-move target cleared by any path has its movement command
\* zeroed with it: in every reachable state with no active target and no
\* movement key held, the move intent is the zero vector
C25_ClearedTargetZeroesIntent ==
    (controller = "character" /\ targetPoint = None /\ heldKeys = <<>>)
        => inputDirection = Zero

--------------------------------------------------------------------------
\* Claims on the writers of the shared fields

\* a key event reaches the keyboard observer of CharacterControls
KeyEventStep == \E k \in SceneKeys : SceneKeyDown(k) \/ SceneKeyUp(k)

\* C27 (the writers that do keep to their fields): a planner step writes
\* neither the turn axis, the jump flag nor the movement state; a physics
\* step writes neither the click target and its tracking fields, the move
\* vector, the turn axis nor the jump flag; a key event writes neither the
\* click target nor the movement state
C27_OtherFieldsSingleWriter ==
    [][/\ (controller = "character" /\ FrameStep) => UNCHANGED <<turnInput, wantJump, state>>
       /\ ScenePhysicsStep => UNCHANGED <<trackingVars, inputDirection, turnInput, wantJump>>
       /\ KeyEventStep => UNCHANGED <<trackingVars, state>>]_vars

\* C27: each shared field has a single writer: no planner step writes the
\* intent fields (move vector, turn axis, yaw, jump flag) or the movement
\* state, no physics step writes the click target or its tracking fields,
\* and no key event writes the click target or the movement state
C27_SingleWriter ==
    [][/\ (controller = "character" /\ FrameStep)
             => UNCHANGED <<inputDirection, turnInput, yaw, wantJump, state>>
       /\ ScenePhysicsStep => UNCHANGED <<trackingVars, inputDirection, turnInput, wantJump>>
       /\ KeyEventStep => UNCHANGED <<trackingVars, state>>]_vars

--------------------------------------------------------------------------
\* Claims on the drag

\* a pointer-move event of the dragging pointer, after the drag threshold
\* has been crossed
DragMoveStep(e) ==
    /\ controller = "character"
    /\ isPointerDown /\ isDragging
    /\ activePointerId = Some(e.pointerId)
    /\ PointerMove(e)

\* C28 (what the two observers do together): the event changes yaw by
\* +dx * yawSpeed in the PointerController and by -dx * 0.02 in
\* CharacterControls
C28_DragYawOfBothObservers ==
    [][\A e \in GestureMoves :
          DragMoveStep(e)
              => yaw' = yaw + (e.clientX - prevPos.x) * yawSpeedMilli
                            - (e.clientX - prevPos.x) * mouseYawSpeedMilli]_vars

\* C28: after the drag threshold has been crossed, each pointer-move event
\* of the dragging pointer changes yaw by exactly -dx * yawSpeed, dx being
\* the horizontal pointer delta since the previous move event, and by
\* nothing else
C28_DragYaw ==
    [][\A e \in GestureMoves :
          DragMoveStep(e) => yaw' = yaw - (e.clientX - prevPos.x) * yawSpeedMilli]_vars


\* ---------------------------------------------------------------------------
\* Claims on the order of a physics step
\* ---------------------------------------------------------------------------

\* the calls of a step that are named by the order: the movement resolver is
\* a helper of the velocity computation and is left out
OrderedCalls ==
    SelectSeq(lastStep.calls,
              LAMBDA c : c \in {"checkSupport", "stepTurn", "setVelocity", "integrate"})

\* the velocity of the branch of movement state st, from the values that
\* the recorded step had
BranchVelocity(st, step) ==
    CASE st = "IN_AIR" -> inAirVelocity(step.dt, step.currentVelocity, step.resolved)
      [] st = "ON_GROUND" -> onGroundVelocity(step.support, step.resolved)
      [] OTHER -> startJumpVelocity(step.currentVelocity)

\* a step of the after-physics callback that was not skipped: the only step
\* that leaves the three key-driven fields alone and records calls
RanStep ==
    /\ UNCHANGED <<wantJump, inputDirection, turnInput>>
    /\ lastStep'.calls # <<>>

\* C30: every non-skipped physics step performs, in this order and exactly
\* once each, a fresh support query, the keyboard turn update, the state
\* transition, a setVelocity with the velocity computed by the branch of the
\* post-transition state, and an integrate call with the same dt and the same
\* support result
C30_StepOrder ==
    [][RanStep =>
          /\ OrderedCalls' = <<"checkSupport", "stepTurn", "setVelocity", "integrate">>
          /\ yaw' = stepTurn(yaw, lastStep'.dt)
          /\ state' = getNextState(state, lastStep'.support, wantJump)
          /\ lastStep'.written = BranchVelocity(state', lastStep')
          /\ lastStep'.integrated = <<lastStep'.dt, lastStep'.support>>]_vars

\* the step that gains support has written the grounded velocity, which is
\* not the airborne one, and the keyboard turn has moved yaw
C30_Witness ==
    /\ StepRan
    /\ lastStep.before = "IN_AIR"
    /\ state = "ON_GROUND"
    /\ lastStep.written = onGroundVelocity(lastStep.support, lastStep.resolved)
    /\ lastStep.written #
          inAirVelocity(lastStep.dt, lastStep.currentVelocity, lastStep.resolved)
    /\ lastStep.integrated = <<lastStep.dt, lastStep.support>>
    /\ yaw # 0


\* ---------------------------------------------------------------------------
\* Claims on the jump
\* ---------------------------------------------------------------------------

\* jumpHeight, micrometres
JumpHeightMicro == jumpHeightTenths * 100 * MilliPerUnit

\* the tolerance of the apex: a twentieth of jumpHeight
ApexSlack == JumpHeightMicro \div 20

ApexPassed == probe.jumped /\ state = "IN_AIR" /\ probe.velocity.y <= 0

PointerStateConsistent ==
    /\ (activePointerId # None) <=> isPointerDown
    /\ isDragging => isPointerDown

\* a pointer-down while a pointer is active, or a move or release of a
\* pointer that is not the active one
ForeignPointerStep ==
    \/ /\ activePointerId # None
       /\ \E e \in TwoPointerDowns : PointerDown(e)
    \/ \E e \in TwoPointerMoves :
          /\ activePointerId # Some(e.pointerId)
          /\ PointerMove(e) \/ \E pick \in TwoPointerPicks : PointerUp(e, pick)

\* the pointer controller's own fields are consistent, and it ignores the
\* events of every pointer but the active one
C32_ControllerIgnoresForeignPointers ==
    [][/\ PointerStateConsistent'
       /\ ForeignPointerStep => UNCHANGED <<plannerVars, inputDirection>>]_vars

\* C32: in every reachable state of the pointer controller activePointerId is
\* non-null exactly when isPointerDown is true, and isDragging implies
\* isPointerDown; a pointer-down arriving while a pointer is active, and
\* move/up events from any other pointer id, change neither yaw, the drag
\* state nor the click target
C32_ForeignPointersIgnored ==
    [][/\ PointerStateConsistent'
       /\ ForeignPointerStep => UNCHANGED <<yaw, isDragging, targetPoint>>]_vars


\* ---------------------------------------------------------------------------
\* Claims on the pinch deadzone
\* ---------------------------------------------------------------------------

\* a move of a tracked finger while two fingers are down
PinchMoveStep(e) ==
    /\ isTouch(e)
    /\ touchesHas(activeTouches, e.pointerId)
    /\ Len(activeTouches) >= 2
    /\ \E pick \in RigidPicks : PointerMove_rigid(e, pick)

\* the change of the inter-finger distance since the previous pointer event
FrameDelta == getPinchDistance(activeTouches') - getPinchDistance(activeTouches)

\* no command is issued while the distance is within the deadzone of the
\* distance at the last command (or at the start of the pinch)
C33_DeadzoneSinceLastCommand ==
    [][\A e \in PinchMoves :
          PinchMoveStep(e) /\ ~pinchCommand(e)
             => UNCHANGED <<linearVelocity, targetPosition, pinchLastDistance>>]_vars

\* C33: a pinch dolly command is issued only when the frame-to-frame change
\* of the inter-finger distance exceeds the deadzone: a two-finger move whose
\* change since the previous move event is within the deadzone issues no
\* velocity command and does not cancel the click target, and such
\* sub-deadzone changes never accumulate into a command
C33_DeadzoneFrameToFrame ==
    [][\A e \in PinchMoves :
          PinchMoveStep(e) /\ Abs(FrameDelta) < pinchDeadzonePx
             => UNCHANGED <<linearVelocity, targetPosition>>]_vars


\* ---------------------------------------------------------------------------
\* Claims on the release of a key in the rigid-body scene
\* ---------------------------------------------------------------------------

\* the release of a key that keyboardState was not initialised with
UntrackedRelease ==
    \E e \in KeyboardEvents : e.code \notin TrackedCodes /\ KeyUp_keyboard(e)

TrackedRelease ==
    \E e \in KeyboardEvents : e.code \in TrackedCodes /\ KeyUp_keyboard(e)

\* the release of any key stops the body
C34_AnyReleaseStops ==
    [][(\E e \in KeyboardEvents : KeyUp_keyboard(e)) => linearVelocity' = Zero]_vars

\* C34: in the rigid-body KeyboardController, releasing a key that is not one
\* of the tracked movement, jump or shift keys leaves the body's linear
\* velocity unchanged; only the release of a tracked key stops the body
C34_UntrackedReleaseKeepsVelocity ==
    [][/\ UntrackedRelease => UNCHANGED linearVelocity
       /\ TrackedRelease => linearVelocity' = Zero]_vars


\* ---------------------------------------------------------------------------
\* Claims on disposal during the initialisation
\* ---------------------------------------------------------------------------

\* the pointer and keyboard observers and the window keydown handler
InputListeners == detachedListeners \cup disposedListeners

BothFinished == lifecycle.disposed /\ lifecycle.init \in {"done", "failed"}

\* when the initialisation is over before the cleanup runs, the cleanup
\* leaves no input listener and nothing moves the character afterwards
C31_DisposalAfterInitUnregisters ==
    [][/\ BothFinished' /\ probe'.disposedDuring = "done"
            => subscriptions' \cap InputListeners = {}
       /\ BothFinished => UNCHANGED locoVars]_vars

\* C31: for every interleaving of scene disposal with the asynchronous scene
\* initialisation, once both have finished no input listener registered by
\* the initialisation (pointer and keyboard observers, the window keydown
\* handler) remains registered and the physics-step locomotion callback no
\* longer mutates state
C31_DisposalUnregisters ==
    [][/\ BothFinished' => subscriptions' \cap InputListeners = {}
       /\ BothFinished => UNCHANGED locoVars]_vars

======================================================================
